---- MODULE Spec2Model ----
(***************************************************************************)
(* Model of vsix-utils: the extension-kind classifier                      *)
(* (src/manifest.ts), the dependency resolver and the file collector       *)
(* (src/files.ts).                                                         *)
(*                                                                         *)
(* Each component is a small state machine of its own: the call's          *)
(* arguments and environment are drawn in its Init, its actions are the    *)
(* steps of the function between suspension points.  The variables of the  *)
(* components that a specification does not exercise stay idle.            *)
(***************************************************************************)
EXTENDS Integers, Sequences, FiniteSets, TLC

VARIABLES
    \* ---- transformExtensionKind (src/manifest.ts) ----
    manifest,       \* the manifest object the caller holds (it is passed by reference)
    declared,       \* history: the manifest as it was when the call was made
    kindResult,     \* the returned ExtensionKind[]
    kindPc,         \* "idle" | "call" | "done"
    \* ---- getExtensionDependencies (src/files.ts) ----
    packageManager,         \* options.packageManager
    manifestDependencies,   \* manifest.dependencies of the manifest passed in
    stdout,                 \* what the package manager's list command prints
    execFails,              \* whether that command exits with an error
    execLog,                \* the external commands started so far
    depsOutcome,            \* how the returned promise settled
    depsPc,                 \* "idle" | "call" | "exec" | "done"
    \* ---- collect (src/files.ts) ----
    gitignore,      \* the .gitignore file of options.cwd, if it exists
    ignoreFile,     \* the file named by options.ignoreFile, if it exists
    readme,         \* options.readme
    optDependencies,    \* options.dependencies
    ig,             \* the rules added to the ignore matcher
    collected,      \* the returned VsixFile[]: the list the caller holds
    collectPc,      \* "idle" | "call" | "glob" | "done" | "processed"
    \* ---- processFiles (src/files.ts) ----
    icon,           \* manifest.icon of the manifest passed to processFiles
    filesAtCall,    \* history: the list as it was when processFiles was called
    processed,      \* how the promise of processFiles settled
    \* ---- writeVsix (src/zip.ts), one entry per operation ----
    writeOptions,   \* the options object of each call
    arrays,         \* the file arrays the callers hold, by reference
    arraysAtCall,   \* history: those arrays before any call was made
    packageFile,    \* what is on disk at each of the two package paths
    packageAtCall,  \* history: what was there before any call was made
    zipEntries,     \* the entries each operation has added to its ZipFile
    outputOpened,   \* whether the operation's write stream has opened its file
    writeOutcome,   \* how each returned promise settled
    writePc,        \* "idle" | "call" | "unlink" | "streaming" | "settled"
    \* ---- prepublish (src/scripts.ts) ----
    scripts,            \* manifest.scripts: the keys of the map, if there is one
    preRelease,         \* options.preRelease
    scriptManager,      \* options.packageManager
    execStarted,        \* the commands passed to exec so far, in order
    scriptState,        \* per script: "running", "ok" or "failed" once started
    execResult,         \* per script: what exec passed to its callback
    prepublishOutcome,  \* how the returned promise settled
    prepublishPc,       \* "idle" | "call" | "waiting" | "done"
    \* ---- validation (src/validation.ts) ----
    engineVersion,      \* engines.vscode
    typesVersion,       \* devDependencies["@types/vscode"], if declared
    validateOutcome,    \* how validateVSCodeTypesCompatability ended
    validationErrors,   \* the types of the entries validateProjectManifest pushed
    validatePc,         \* "idle" | "call" | "done" | "manifest-done"
    \* ---- the tree processing of getExtensionDependencies, call by call ----
    walkManager,        \* "yarn" | "pnpm"
    walkTrees,          \* data.trees of yarn, entry.dependencies of pnpm
    asYarnCalls,        \* the pending calls of asYarnDependency: prefix and tree
    constructed,        \* the paths asYarnDependency has joined, in order
    flattenCalls,       \* the pending calls of flatten
    internalDeps,       \* the set internalDeps
    flattened,          \* what was added to dependencies, in order
    walkPc              \* "idle" | "construct" | "flatten" | "done"

kindVars == <<manifest, declared, kindResult, kindPc>>

depsVars == <<packageManager, manifestDependencies, stdout, execFails, execLog, depsOutcome, depsPc>>

collectVars == <<gitignore, ignoreFile, readme, optDependencies, ig, collected, collectPc,
                 icon, filesAtCall, processed>>

writeVars == <<writeOptions, arrays, arraysAtCall, packageFile, packageAtCall, zipEntries,
               outputOpened, writeOutcome, writePc>>

scriptVars == <<scripts, preRelease, scriptManager, execStarted, scriptState,
                execResult, prepublishOutcome, prepublishPc>>

validateVars == <<engineVersion, typesVersion, validateOutcome, validationErrors, validatePc>>

walkVars == <<walkManager, walkTrees, asYarnCalls, constructed, flattenCalls, internalDeps,
              flattened, walkPc>>

vars == <<manifest, declared, kindResult, kindPc,
          packageManager, manifestDependencies, stdout, execFails, execLog, depsOutcome, depsPc,
          gitignore, ignoreFile, readme, optDependencies, ig, collected, collectPc,
          icon, filesAtCall, processed,
          writeOptions, arrays, arraysAtCall, packageFile, packageAtCall, zipEntries,
          outputOpened, writeOutcome, writePc,
          scripts, preRelease, scriptManager, execStarted, scriptState,
          execResult, prepublishOutcome, prepublishPc,
          engineVersion, typesVersion, validateOutcome, validationErrors, validatePc,
          walkManager, walkTrees, asYarnCalls, constructed, flattenCalls, internalDeps,
          flattened, walkPc>>

\* JavaScript null / undefined for fields that are absent from an object.
Null == [tag |-> "null", val |-> <<>>]

\* Array.prototype.includes
Includes(arr, x) == \E i \in DOMAIN arr : arr[i] = x

SeqsUpTo(S, n) == UNION {[1..k -> S] : k \in 0..n}

Range(s) == {s[i] : i \in DOMAIN s}

IsInjective(s) == \A i, j \in DOMAIN s : s[i] = s[j] => i = j

(***************************************************************************)
(* transformExtensionKind                                                  *)
(***************************************************************************)

\* Bounds of the manifests that are enumerated.
MaxKinds == 2
MaxContributions == 2

ExtensionKind == {"ui", "workspace", "web"}

CONTRIBUTION_POINTS_FOR_EXTENSION_KIND ==
    [k \in {"jsonValidation", "localizations", "debuggers", "terminal",
            "typescriptServerPlugins", "markdown.previewStyles",
            "markdown.previewScripts", "markdown.markdownItPlugins",
            "html.customData", "css.customData"} |->
        CASE k = "jsonValidation" -> <<"workspace", "web">>
          [] k = "localizations" -> <<"ui", "workspace">>
          [] k = "debuggers" -> <<"workspace">>
          [] k = "terminal" -> <<"workspace">>
          [] k = "typescriptServerPlugins" -> <<"workspace">>
          [] k = "markdown.previewStyles" -> <<"workspace", "web">>
          [] k = "markdown.previewScripts" -> <<"workspace", "web">>
          [] k = "markdown.markdownItPlugins" -> <<"workspace", "web">>
          [] k = "html.customData" -> <<"workspace", "web">>
          [] k = "css.customData" -> <<"workspace", "web">>]

\* Contribution keys a manifest may carry: the table's keys and two the table
\* does not know.
ContributionKeys == DOMAIN CONTRIBUTION_POINTS_FOR_EXTENSION_KIND \cup {"commands", "themes"}

\* The values of Manifest.extensionKind: absent, a single kind, or an array.
ExtensionKindValues ==
    {Null}
    \cup {[tag |-> "string", val |-> <<k>>] : k \in ExtensionKind}
    \cup {[tag |-> "array", val |-> a] : a \in SeqsUpTo(ExtensionKind, MaxKinds)}

\* Optional string fields (main, browser).
OptionalPath(p) == {Null, [tag |-> "string", val |-> <<p>>]}

\* Optional string[] fields (extensionPack, extensionDependencies).
OptionalIds == {Null, [tag |-> "array", val |-> <<>>], [tag |-> "array", val |-> <<"foo.bar">>]}

\* Manifest.contributes: absent, or an object whose keys are listed in
\* insertion order (the order Object.keys returns them in).
ContributesValues ==
    {Null}
    \cup {[tag |-> "object", val |-> ks] :
            ks \in {s \in SeqsUpTo(ContributionKeys, MaxContributions) : IsInjective(s)}}

\* Contributes values with at most one key.
ShortContributes == {c \in ContributesValues : Len(c.val) <= 1}

\* The manifests enumerated: every combination of the fields the function
\* reads when no extensionKind is declared, and every declared extensionKind
\* with every combination of the other fields and at most one contribution.
Manifests ==
    [extensionKind : {Null},
     main : OptionalPath("dist/extension.js"),
     browser : OptionalPath("dist/web.js"),
     extensionPack : OptionalIds,
     extensionDependencies : OptionalIds,
     contributes : ContributesValues]
    \cup
    [extensionKind : ExtensionKindValues \ {Null},
     main : OptionalPath("dist/extension.js"),
     browser : OptionalPath("dist/web.js"),
     extensionPack : OptionalIds,
     extensionDependencies : OptionalIds,
     contributes : ShortContributes]

isWebSupported(m) == m.browser # Null

\* Mutant: a bare "ui" declaration is not expanded.
explicitKinds_noExpansion(m) == m.extensionKind.val

\* explicitKinds before the push; for an array it is the manifest's own array.
explicitKinds(m) ==
    IF m.extensionKind.tag = "array"
    THEN m.extensionKind.val
    ELSE IF m.extensionKind.val = <<"ui">>
         THEN <<"ui", "workspace">>
         ELSE m.extensionKind.val

\* The condition under which "web" is pushed onto explicitKinds.
pushesWeb(m) == isWebSupported(m) /\ ~Includes(explicitKinds(m), "web")

\* Mutant: any array counts, also an empty one.
isNonEmptyArray_anyArray(obj) == obj.tag = "array"

isNonEmptyArray(obj) == obj.tag = "array" /\ Len(obj.val) > 0

\* Mutant: only the first recognized contribution narrows the result.
filterByContributions_firstOnly(result, keys) ==
    LET known == SelectSeq(keys, LAMBDA k : k \in DOMAIN CONTRIBUTION_POINTS_FOR_EXTENSION_KIND)
    IN IF known = <<>>
       THEN result
       ELSE SelectSeq(result,
                LAMBDA kind : Includes(CONTRIBUTION_POINTS_FOR_EXTENSION_KIND[Head(known)], kind))

RECURSIVE filterByContributions(_, _)
filterByContributions(result, keys) ==
    IF keys = <<>>
    THEN result
    ELSE LET contribution == Head(keys)
             narrowed ==
                 IF contribution \in DOMAIN CONTRIBUTION_POINTS_FOR_EXTENSION_KIND
                 THEN LET supportedKinds == CONTRIBUTION_POINTS_FOR_EXTENSION_KIND[contribution]
                      IN SelectSeq(result, LAMBDA kind : Includes(supportedKinds, kind))
                 ELSE result
         IN filterByContributions(narrowed, Tail(keys))

\* The value transformExtensionKind returns for manifest m.
transformExtensionKind(m) ==
    IF m.extensionKind # Null
    THEN IF pushesWeb(m) THEN Append(explicitKinds(m), "web") ELSE explicitKinds(m)
    ELSE IF m.main # Null /\ isWebSupported(m) THEN <<"workspace", "web">>
    ELSE IF m.main # Null THEN <<"workspace">>
    ELSE IF isWebSupported(m) THEN <<"web">>
    ELSE IF isNonEmptyArray(m.extensionPack) \/ isNonEmptyArray(m.extensionDependencies)
         THEN <<"workspace", "web">>
    ELSE IF m.contributes # Null
         THEN filterByContributions(<<"ui", "workspace", "web">>, m.contributes.val)
         ELSE <<"ui", "workspace", "web">>

\* The manifest after the call: explicitKinds.push("web") pushes onto the
\* manifest's own array when extensionKind is an array.
manifestAfterTransform(m) ==
    IF m.extensionKind.tag = "array" /\ pushesWeb(m)
    THEN [m EXCEPT !.extensionKind.val = Append(@, "web")]
    ELSE m

KindIdle ==
    /\ manifest = Null
    /\ declared = Null
    /\ kindResult = <<>>
    /\ kindPc = "idle"

KindInit ==
    /\ manifest \in Manifests
    /\ declared = manifest
    /\ kindResult = <<>>
    /\ kindPc = "call"

TransformExtensionKind ==
    /\ kindPc = "call"
    /\ kindResult' = transformExtensionKind(manifest)
    /\ manifest' = manifestAfterTransform(manifest)
    /\ kindPc' = "done"
    /\ UNCHANGED declared
    /\ UNCHANGED <<depsVars, collectVars, writeVars, scriptVars, validateVars, walkVars>>

(***************************************************************************)
(* getExtensionDependencies                                                *)
(*                                                                         *)
(* Text is a sequence of tokens: the characters the code looks for ("/",   *)
(* "@", "^", "~") are tokens of their own, every other token is a run of   *)
(* characters without any of them.  Two texts are equal iff their token    *)
(* sequences are.                                                          *)
(***************************************************************************)

\* Bounds of the package manager outputs that are enumerated.
MaxNpmLines == 2
MaxYarnLines == 2
MaxYarnNodes == 3
MaxPnpmNodes == 4

\* A string value, as opposed to undefined (Null).
Str(tokens) == [tag |-> "string", val |-> tokens]

\* The positions at which sep occurs in s.
Occurrences(s, sep) ==
    {i \in 1..(Len(s) - Len(sep) + 1) : SubSeq(s, i, i + Len(sep) - 1) = sep}

Min(S) == CHOOSE x \in S : \A y \in S : x <= y

\* String.prototype.split(sep) for a non-empty separator: the matches are
\* taken left to right and do not overlap.
RECURSIVE Split(_, _)
Split(s, sep) ==
    IF Occurrences(s, sep) = {}
    THEN <<s>>
    ELSE LET i == Min(Occurrences(s, sep))
         IN <<SubSeq(s, 1, i - 1)>> \o Split(SubSeq(s, i + Len(sep), Len(s)), sep)

\* path.join of already normalized parts (none is empty, ".", "..", and none
\* starts or ends with the separator).
PathJoin(a, b) == a \o <<"/">> \o b

\* path.isAbsolute (posix)
isAbsolute(p) == p # <<>> /\ p[1] = "/"

\* options.cwd; resolve(cwd) is cwd itself for an absolute normalized path.
Cwd == <<"/", "proj">>

NODE_MODULES == <<"node_modules">>

\* ${path.sep}node_modules${path.sep}
NodeModulesSep == <<"/">> \o NODE_MODULES \o <<"/">>

\* The error getExtensionDependencies rejects with, by its message.
Throw(message) == [kind |-> "throw", message |-> message, value |-> <<>>]

Return(value) == [kind |-> "return", message |-> <<>>, value |-> value]

Pending == [kind |-> "pending", message |-> <<>>, value |-> <<>>]

\* An ExtensionDependency object.
Dependency(name, version, path) == [name |-> name, version |-> version, path |-> path]

\* ---- npm: npm list --parseable prints one path per line ----

\* manifest.dependencies[name]; undefined when the map or the key is absent.
ManifestVersion(deps, name) ==
    IF deps # Null /\ name \in DOMAIN deps.val THEN Str(deps.val[name]) ELSE Null

\* dependencies is a Set of objects: every add of a fresh object literal adds
\* an element, whatever its fields, and iteration is in insertion order.
SetAdd(dependencies, obj) == Append(dependencies, obj)

\* The loop over the lines that are absolute paths.
RECURSIVE NpmLoop(_, _, _)
NpmLoop(lines, deps, dependencies) ==
    IF lines = <<>>
    THEN Return(dependencies)
    ELSE LET line == Head(lines)
             parts == Split(line, NodeModulesSep)
         IN IF line = Cwd
            THEN NpmLoop(Tail(lines), deps, dependencies)
            ELSE IF Len(parts) < 2
                 THEN Throw(<<"could not parse dependency: ">> \o line)
                 ELSE LET dependency == parts[2]
                      IN NpmLoop(Tail(lines), deps,
                            SetAdd(dependencies,
                                Dependency(dependency, ManifestVersion(deps, dependency), line)))

NpmParse(out, deps) == NpmLoop(SelectSeq(out, isAbsolute), deps, <<>>)

\* ---- yarn: yarn list --json prints JSON lines ----

\* A test that finds no range operator.
HasRangeOperator_never(name) == FALSE

\* /@[\^~]/.test(name)
HasRangeOperator(name) ==
    \E i \in 1..(Len(name) - 1) : name[i] = "@" /\ name[i + 1] \in {"^", "~"}

\* The name and version asYarnDependency takes from tree.name.
YarnNameVersion(treeName) ==
    LET tmp0 == Split(treeName, <<"@">>)
        shifted == Tail(tmp0)
        tmp == IF tmp0[1] = <<>>
               THEN IF shifted = <<>>
                    THEN <<<<"@", "undefined">>>>
                    ELSE <<<<"@">> \o shifted[1]>> \o Tail(shifted)
               ELSE tmp0
    IN [name |-> tmp[1],
        version |-> IF Len(tmp) >= 2 THEN tmp[2] ELSE <<>>]

\* asYarnDependency and the filter of nulls over a list of tree nodes: the
\* YarnDependency values of the nodes that are not pruned.
RECURSIVE asYarnDependencies(_, _, _)
asYarnDependencies(prefix, trees, prune) ==
    IF trees = <<>>
    THEN <<>>
    ELSE LET tree == Head(trees)
             nv == YarnNameVersion(tree.name)
             dependencyPath == PathJoin(prefix, nv.name)
             dep == [name |-> nv.name,
                     path |-> dependencyPath,
                     version |-> nv.version,
                     children |-> asYarnDependencies(
                                      PathJoin(dependencyPath, NODE_MODULES),
                                      tree.children, prune)]
         IN (IF prune /\ HasRangeOperator(tree.name) THEN <<>> ELSE <<dep>>)
            \o asYarnDependencies(prefix, Tail(trees), prune)

\* flatten applied to each element of deps in turn; acc carries the
\* dependencies set and internalDeps.
RECURSIVE yarnFlattenAll(_, _)
yarnFlattenAll(deps, acc) ==
    IF deps = <<>>
    THEN acc
    ELSE LET dep == Head(deps)
             after ==
                 IF dep.path \in acc.internalDeps
                 THEN acc
                 ELSE LET added == [dependencies |->
                                        SetAdd(acc.dependencies,
                                            Dependency(dep.name, Str(dep.version), dep.path)),
                                    internalDeps |-> acc.internalDeps \cup {dep.path}]
                      IN yarnFlattenAll(dep.children, added)
         IN yarnFlattenAll(Tail(deps), after)

\* The lines of stdout that /^\{"type":"tree".*$/m matches.
YarnTreeLines(out) == SelectSeq(out, LAMBDA line : line.type = "tree")

\* The result of /^\{"type":"tree".*$/m.exec(stdout): null, or an array
\* holding the first matching line (the pattern has no capture group and no
\* g flag).
YarnMatch(out) ==
    IF YarnTreeLines(out) = <<>> THEN <<>> ELSE <<Head(YarnTreeLines(out))>>

\* !match || match.length !== 1
YarnMatchFails(out) == YarnMatch(out) = <<>> \/ Len(YarnMatch(out)) # 1

\* The message of the parse error is the source's, without its backquotes.
YarnParse(out) ==
    IF YarnMatchFails(out)
    THEN Throw(<<"Could not parse result of yarn list --json">>)
    ELSE LET json == YarnMatch(out)[1].json
         IN IF json.tag = "invalid"
            THEN Throw(<<"SyntaxError">>)
            ELSE IF json.tag # "array" \/ json.val = <<>>
                 THEN Return(<<>>)
                 ELSE LET result == asYarnDependencies(PathJoin(Cwd, NODE_MODULES), json.val, TRUE)
                      IN Return(yarnFlattenAll(result,
                                    [dependencies |-> <<>>, internalDeps |-> {}]).dependencies)

\* ---- pnpm: pnpm list --json prints one JSON array ----

\* Mutant: flatten without the visited-path guard.
RECURSIVE pnpmFlattenAll_noGuard(_, _)
pnpmFlattenAll_noGuard(deps, acc) ==
    IF deps = <<>>
    THEN acc
    ELSE LET dep == Head(deps)
             added == [dependencies |->
                           SetAdd(acc.dependencies,
                               Dependency(dep.from, Str(dep.version), dep.path)),
                       internalDeps |-> acc.internalDeps \cup {dep.path}]
         IN pnpmFlattenAll_noGuard(Tail(deps), pnpmFlattenAll_noGuard(dep.dependencies, added))

\* flatten applied to each of Object.values(...) in turn.
RECURSIVE pnpmFlattenAll(_, _)
pnpmFlattenAll(deps, acc) ==
    IF deps = <<>>
    THEN acc
    ELSE LET dep == Head(deps)
             after ==
                 IF dep.path \in acc.internalDeps
                 THEN acc
                 ELSE LET added == [dependencies |->
                                        SetAdd(acc.dependencies,
                                            Dependency(dep.from, Str(dep.version), dep.path)),
                                    internalDeps |-> acc.internalDeps \cup {dep.path}]
                      IN pnpmFlattenAll(dep.dependencies, added)
         IN pnpmFlattenAll(Tail(deps), after)

\* Mutant: malformed output is an error, as for yarn.
PnpmParse_strict(out) ==
    IF out.tag = "entries" /\ out.val # <<>> /\ out.val[1].tag = "entry"
    THEN Return(pnpmFlattenAll(out.val[1].val,
                    [dependencies |-> <<>>, internalDeps |-> {}]).dependencies)
    ELSE Throw(<<"Could not parse result of pnpm list --json">>)

PnpmParse(out) ==
    IF out.tag = "invalid"
    THEN Return(<<>>)
    ELSE IF out.tag # "entries" \/ out.val = <<>>
         THEN Return(<<>>)
         ELSE LET entry == out.val[1]
              IN IF entry.tag # "entry"
                 THEN Return(<<>>)
                 ELSE Return(pnpmFlattenAll(entry.val,
                                [dependencies |-> <<>>, internalDeps |-> {}]).dependencies)

\* ---- the outputs that are enumerated ----

NpmLines ==
    {Cwd,
     <<"/", "proj", "/", "node_modules", "/", "a">>,
     <<"/", "proj", "/", "node_modules", "/", "a", "/", "node_modules", "/", "b">>,
     <<"/", "proj", "/", "node_modules", "/", "@", "s", "/", "c">>,
     <<"/", "proj", "/", "lib">>,
     <<>>}

NpmStdouts == SeqsUpTo(NpmLines, MaxNpmLines)

ManifestDependencyMaps ==
    {Null, [tag |-> "object", val |-> (<<"a">> :> <<"^", "1.0.0">>)]}

\* A forest of n labelled nodes: parent[i] < i is the parent of node i (0 for
\* a root), and siblings are ordered by their number.
ParentMaps(n) == {p \in [1..n -> 0..n] : \A i \in 1..n : p[i] < i}

YarnTreeNames ==
    {<<"a", "@", "1.0.0">>,
     <<"b", "@", "^", "1.0.0">>,
     <<"@", "s", "/", "c", "@", "2.0.0">>,
     <<"d", "@", "npm:e", "@", "3.0.0">>}

\* The YarnTreeNode values of the children of node p.
RECURSIVE YarnNodes(_, _, _, _, _)
YarnNodes(parent, label, n, p, j) ==
    IF j > n
    THEN <<>>
    ELSE (IF parent[j] = p
          THEN <<[name |-> label[j], children |-> YarnNodes(parent, label, n, j, j + 1)]>>
          ELSE <<>>)
         \o YarnNodes(parent, label, n, p, j + 1)

YarnForests ==
    UNION {{YarnNodes(parent, label, n, 0, 1) :
                parent \in ParentMaps(n), label \in [1..n -> YarnTreeNames]} :
           n \in 0..MaxYarnNodes}

\* A line the pattern does not match.
YarnOtherLine == [type |-> "other", json |-> [tag |-> "none", val |-> <<>>]]

YarnTreeLine(tag, trees) == [type |-> "tree", json |-> [tag |-> tag, val |-> trees]]

\* Tree lines: invalid JSON after the prefix, data.trees that is no array, and
\* every forest.
YarnFullLines ==
    {YarnTreeLine("invalid", <<>>), YarnTreeLine("noTrees", <<>>)}
    \cup {YarnTreeLine("array", f) : f \in YarnForests}

YarnFewLines ==
    {YarnOtherLine,
     YarnTreeLine("invalid", <<>>),
     YarnTreeLine("array", <<[name |-> <<"a", "@", "1.0.0">>, children |-> <<>>]>>)}

\* Every sequence of the few lines, and each of them with one line replaced
\* by any tree line.
YarnStdouts ==
    LET few == SeqsUpTo(YarnFewLines, MaxYarnLines)
    IN few \cup {[s EXCEPT ![i] = line] :
                    s \in few \ {<<>>}, i \in 1..MaxYarnLines, line \in YarnFullLines}

\* The installed packages pnpm reports: path, name and version.
PnpmPackages ==
    {[path |-> <<"/", "store", "/", "a">>, from |-> <<"a">>, version |-> <<"1.0.0">>],
     [path |-> <<"/", "store", "/", "b">>, from |-> <<"b">>, version |-> <<"2.0.0">>],
     [path |-> <<"/", "store", "/", "c">>, from |-> <<"c">>, version |-> <<"3.0.0">>]}

\* The PnpmDependency values of the children of node p, in the order of
\* Object.values; an absent dependencies map is the empty sequence.
RECURSIVE PnpmNodes(_, _, _, _, _)
PnpmNodes(parent, label, n, p, j) ==
    IF j > n
    THEN <<>>
    ELSE (IF parent[j] = p
          THEN <<[from |-> label[j].from, version |-> label[j].version,
                  path |-> label[j].path,
                  dependencies |-> PnpmNodes(parent, label, n, j, j + 1)]>>
          ELSE <<>>)
         \o PnpmNodes(parent, label, n, p, j + 1)

PnpmForests ==
    UNION {{PnpmNodes(parent, label, n, 0, 1) :
                parent \in ParentMaps(n), label \in [1..n -> PnpmPackages]} :
           n \in 0..MaxPnpmNodes}

\* stdout of pnpm: not JSON, JSON that is no array, or an array whose first
\* element is null, no object, an object without dependencies, or an object
\* with a dependencies map.
PnpmStdouts ==
    {[tag |-> "invalid", val |-> <<>>],
     [tag |-> "value", val |-> <<>>],
     [tag |-> "entries", val |-> <<>>],
     [tag |-> "entries", val |-> <<[tag |-> "null", val |-> <<>>]>>],
     [tag |-> "entries", val |-> <<[tag |-> "scalar", val |-> <<>>]>>],
     [tag |-> "entries", val |-> <<[tag |-> "nodeps", val |-> <<>>]>>]}
    \cup {[tag |-> "entries", val |-> <<[tag |-> "entry", val |-> f]>>] : f \in PnpmForests}

PackageManagers == {"npm", "yarn", "pnpm", "custom", "bun"}

\* Mutant: anything that is not npm or yarn is treated as pnpm.
Branch_defaultPnpm(pm) ==
    IF pm = "npm" THEN "npm" ELSE IF pm = "yarn" THEN "yarn" ELSE "pnpm"

\* The branch of the if / else-if chain that is taken.
Branch(pm) ==
    IF pm = "npm" THEN "npm"
    ELSE IF pm = "yarn" THEN "yarn"
    ELSE IF pm = "pnpm" THEN "pnpm"
    ELSE "unsupported"

\* The command each branch passes to execAsync.
Command(branch) ==
    CASE branch = "npm" -> "npm list --production --parseable --depth=99999 --loglevel=error"
      [] branch = "yarn" -> "yarn list --prod --json"
      [] branch = "pnpm" ->
            "pnpm list --production --json --depth=99999 --loglevel=error --ignore-workspace"

DepsIdle ==
    /\ packageManager = "none"
    /\ manifestDependencies = Null
    /\ stdout = <<>>
    /\ execFails = FALSE
    /\ execLog = <<>>
    /\ depsOutcome = Pending
    /\ depsPc = "idle"

\* The call's arguments, and what the package manager's command will do.
DepsInit ==
    /\ depsPc = "call"
    /\ execLog = <<>>
    /\ depsOutcome = Pending
    /\ packageManager \in PackageManagers
    /\ \/ /\ packageManager = "npm"
          /\ stdout \in NpmStdouts
          /\ manifestDependencies \in ManifestDependencyMaps
          /\ execFails = FALSE
       \/ /\ packageManager = "yarn"
          /\ stdout \in YarnStdouts
          /\ manifestDependencies = Null
          /\ execFails = FALSE
       \/ /\ packageManager = "pnpm"
          /\ stdout \in PnpmStdouts
          /\ manifestDependencies = Null
          /\ execFails = FALSE
       \/ /\ stdout = <<>>
          /\ manifestDependencies = Null
          /\ execFails = (packageManager \in {"npm", "yarn", "pnpm"})

\* getExtensionDependencies up to its await: the command is started, or the
\* else branch throws.
GetExtensionDependenciesCall ==
    /\ depsPc = "call"
    /\ IF Branch(packageManager) = "unsupported"
       THEN /\ depsOutcome' = Throw(<<"unsupported package manager: ", packageManager>>)
            /\ depsPc' = "done"
            /\ UNCHANGED execLog
       ELSE /\ execLog' = Append(execLog, Command(Branch(packageManager)))
            /\ depsPc' = "exec"
            /\ UNCHANGED depsOutcome
    /\ UNCHANGED <<packageManager, manifestDependencies, stdout, execFails>>
    /\ UNCHANGED <<kindVars, collectVars, writeVars, scriptVars, validateVars, walkVars>>

\* The rest of getExtensionDependencies, once execAsync has settled.
GetExtensionDependenciesResume ==
    /\ depsPc = "exec"
    /\ depsOutcome' =
          IF execFails
          THEN Throw(<<"Command failed">>)
          ELSE CASE Branch(packageManager) = "npm" -> NpmParse(stdout, manifestDependencies)
                 [] Branch(packageManager) = "yarn" -> YarnParse(stdout)
                 [] Branch(packageManager) = "pnpm" -> PnpmParse(stdout)
    /\ depsPc' = "done"
    /\ UNCHANGED <<packageManager, manifestDependencies, stdout, execFails, execLog>>
    /\ UNCHANGED <<kindVars, collectVars, writeVars, scriptVars, validateVars, walkVars>>

(***************************************************************************)
(* collect                                                                 *)
(*                                                                         *)
(* Paths are token sequences in which "/" and "." are tokens of their own. *)
(* A glob or ignore pattern is a record: neg for a leading "!", kind and   *)
(* arg for its text:                                                       *)
(*    name n   the pattern n, a file or directory name without a slash     *)
(*    ext e    the pattern *.e (in the built-in list: **/*.e)              *)
(*    tree d   the pattern d/**                                            *)
(*    deep n   the pattern **/n/**                                         *)
(*    path p   the pattern p, a relative path                              *)
(***************************************************************************)

\* Bounds of the ignore files that are enumerated.
MaxGitignoreRules == 1
MaxIgnoreFileRules == 1

Pattern(kind, arg) == [neg |-> FALSE, kind |-> kind, arg |-> arg]

Negated(pattern) == [pattern EXCEPT !.neg = TRUE]

PackageJson == <<"package", ".", "json">>

ReadmeMd == <<"README", ".", "md">>

ContributingMd == <<"CONTRIBUTING", ".", "md">>

GitignoreName == <<".", "gitignore">>

\* options.ignoreFile, at its default.
IgnoreFileName == <<".", "vscodeignore">>

\* src/vsce-constants.ts is generated from the constants of @vscode/vsce; these
\* are entries of its default ignore list.
VSCE_DEFAULT_IGNORE ==
    <<Pattern("name", IgnoreFileName),
      Pattern("name", ContributingMd),
      Pattern("name", <<".", "github">>),
      Pattern("deep", <<".", "git">>),
      Pattern("ext", <<"vsix">>)>>

\* The segments of a relative path.
Segments(path) == Split(path, <<"/">>)

\* Whether a file or directory name ends with ".e".
HasExtension(segment, e) ==
    /\ Len(segment) >= Len(e) + 1
    /\ SubSeq(segment, Len(segment) - Len(e), Len(segment)) = <<".">> \o e

\* Whether a pattern of the glob's ignore option matches a file (picomatch
\* on the path relative to cwd, dot: true; with expandDirectories a pattern p
\* also stands for p/**).
GlobMatches(pattern, file) ==
    LET segs == Segments(file)
    IN CASE pattern.kind = "name" -> segs[1] = pattern.arg
         [] pattern.kind = "ext" -> \E i \in DOMAIN segs : HasExtension(segs[i], pattern.arg)
         [] pattern.kind = "tree" -> Len(segs) >= 2 /\ segs[1] = pattern.arg
         [] pattern.kind = "deep" -> \E i \in 1..(Len(segs) - 1) : segs[i] = pattern.arg
         [] pattern.kind = "path" ->
                LET ps == Segments(pattern.arg)
                IN Len(segs) >= Len(ps) /\ SubSeq(segs, 1, Len(ps)) = ps

\* The ignore option collect passes to glob.
globIgnoreOption(readmeName) ==
    VSCE_DEFAULT_IGNORE
    \o <<Negated(Pattern("path", PackageJson)),
         Negated(Pattern("path", readmeName)),
         Pattern("tree", NODE_MODULES)>>

\* Whether glob leaves a file out because of its ignore option. tinyglobby
\* does not handle the entries of ignore that start with "!": it drops them,
\* and the remaining entries are plain exclusions.
globIgnores(option, file) ==
    LET ignorePatterns == SelectSeq(option, LAMBDA p : ~p.neg)
    IN \E i \in DOMAIN ignorePatterns : GlobMatches(ignorePatterns[i], file)

\* Whether a rule of the ignore matcher matches a path (of a file, or of one
\* of its parent directories), by gitignore's rules: a pattern without a
\* slash matches a name at any depth.
RuleMatches(rule, segs) ==
    CASE rule.kind = "name" -> segs[Len(segs)] = rule.arg
      [] rule.kind = "ext" -> HasExtension(segs[Len(segs)], rule.arg)
      [] rule.kind = "tree" -> Len(segs) >= 2 /\ segs[1] = rule.arg
      [] rule.kind = "deep" -> \E i \in 1..(Len(segs) - 1) : segs[i] = rule.arg
      [] rule.kind = "path" -> segs = Segments(rule.arg)

\* The rules are tested in order; the last one that matches decides.
RECURSIVE TestOne(_, _, _)
TestOne(rules, segs, state) ==
    IF rules = <<>>
    THEN state
    ELSE LET rule == Head(rules)
             skip ==
                 \/ (state.unignored = rule.neg /\ state.ignored # state.unignored)
                 \/ (rule.neg /\ ~state.ignored /\ ~state.unignored)
             next ==
                 IF ~skip /\ RuleMatches(rule, segs)
                 THEN [ignored |-> ~rule.neg, unignored |-> rule.neg]
                 ELSE state
         IN TestOne(Tail(rules), segs, next)

\* The parent directories are tested first: below an ignored directory
\* nothing can be re-included.
RECURSIVE TestPath(_, _, _)
TestPath(rules, segs, k) ==
    LET here == TestOne(rules, SubSeq(segs, 1, k), [ignored |-> FALSE, unignored |-> FALSE])
    IN IF k = 1
       THEN here
       ELSE LET parent == TestPath(rules, segs, k - 1)
            IN IF parent.ignored THEN parent ELSE here

\* ig.ignores(file) without the test of the parent directories.
igIgnores_noParents(rules, file) ==
    TestOne(rules, Segments(file), [ignored |-> FALSE, unignored |-> FALSE]).ignored

\* ig.ignores(file)
igIgnores(rules, file) == TestPath(rules, Segments(file), Len(Segments(file))).ignored

\* String.prototype.replace(search, "") with a string pattern: the first
\* occurrence is removed.
RemoveFirst(s, search) ==
    IF Occurrences(s, search) = {}
    THEN s
    ELSE LET i == Min(Occurrences(s, search))
         IN SubSeq(s, 1, i - 1) \o SubSeq(s, i + Len(search), Len(s))

\* process.cwd()
ProcessCwd == <<"/", "work">>

\* The files below options.cwd other than the two ignore files, in the order
\* glob lists them.
DiskFiles ==
    <<<<".", "git", "/", "config">>,
      ContributingMd,
      <<"LICENSE">>,
      ReadmeMd,
      <<"dist", "/", "extension", ".", "js">>,
      <<"dist", "/", "notes", ".", "md">>,
      <<"ext", ".", "vsix">>,
      <<"node_modules", "/", "a", "/", "index", ".", "js">>,
      PackageJson>>

\* The patterns the ignore files are written from.
UserPatterns ==
    {Pattern("name", PackageJson),
     Pattern("ext", <<"md">>),
     Pattern("tree", <<"dist">>),
     Pattern("name", <<"dist">>)}

UserRules == UserPatterns \cup {Negated(pattern) : pattern \in UserPatterns}

\* An ignore file: absent, or its rules in the order of its lines.
IgnoreFiles(n) == {Null} \cup {[tag |-> "file", val |-> rules] : rules \in SeqsUpTo(UserRules, n)}

ReadmeOptions == {ReadmeMd, ContributingMd}

\* options.dependencies: none, one installed below process.cwd(), the same
\* record twice installed elsewhere.
DependencyLists ==
    LET a == Dependency(<<"a">>, Str(<<"1.0.0">>),
                        <<"/", "work", "/", "node_modules", "/", "a">>)
        b == Dependency(<<"b">>, Str(<<"2.0.0">>),
                        <<"/", "proj", "/", "node_modules", "/", "b">>)
    IN {<<>>, <<a>>, <<b, b>>}

\* What glob("**", ...) lists: the files on disk, the ignore files that exist
\* among them, less what the ignore option excludes.
diskListing(gitignoreFile, toolIgnoreFile) ==
    (IF gitignoreFile # Null THEN <<GitignoreName>> ELSE <<>>)
    \o (IF toolIgnoreFile # Null THEN <<IgnoreFileName>> ELSE <<>>)
    \o DiskFiles

glob(listing, option) == SelectSeq(listing, LAMBDA file : ~globIgnores(option, file))

\* The VsixFile of a walked file, without the archive root.
LocalFile_noRoot(file) ==
    [type |-> "local",
     localPath |-> PathJoin(Cwd, file),
     path |-> file]

\* The VsixFile of a walked file.
LocalFile(file) ==
    [type |-> "local",
     localPath |-> PathJoin(Cwd, file),
     path |-> <<"extension", "/">> \o file]

\* The VsixFile pushed for a dependency.
DependencyFile(dep) ==
    [type |-> "local",
     path |-> PathJoin(<<"extension", "/", "node_modules">>, dep.name),
     localPath |-> RemoveFirst(dep.path, ProcessCwd \o <<"/">>)]

\* filteredFiles.map(...)
LocalFiles(filteredFiles) == [i \in DOMAIN filteredFiles |-> LocalFile(filteredFiles[i])]

\* The entries pushed by the loop over options.dependencies.
DependencyFiles(deps) == [i \in DOMAIN deps |-> DependencyFile(deps[i])]

CollectIdle ==
    /\ gitignore = Null
    /\ ignoreFile = Null
    /\ readme = <<>>
    /\ optDependencies = <<>>
    /\ ig = <<>>
    /\ collected = <<>>
    /\ collectPc = "idle"
    /\ icon = Null
    /\ filesAtCall = <<>>
    /\ processed = Pending

\* The call's options and the two ignore files of options.cwd.
CollectInit ==
    /\ gitignore \in IgnoreFiles(MaxGitignoreRules)
    /\ ignoreFile \in IgnoreFiles(MaxIgnoreFileRules)
    /\ readme \in ReadmeOptions
    /\ optDependencies \in DependencyLists
    /\ ig = <<>>
    /\ collected = <<>>
    /\ collectPc = "call"
    /\ icon = Null
    /\ filesAtCall = <<>>
    /\ processed = Pending

\* collect up to its glob call: .gitignore, then the tool ignore file, are
\* added to ig when they exist.
CollectReadIgnoreFiles ==
    /\ collectPc = "call"
    /\ ig' = (IF gitignore # Null THEN gitignore.val ELSE <<>>)
             \o (IF ignoreFile # Null THEN ignoreFile.val ELSE <<>>)
    /\ collectPc' = "glob"
    /\ UNCHANGED <<gitignore, ignoreFile, readme, optDependencies, collected>>
    /\ UNCHANGED <<icon, filesAtCall, processed>>
    /\ UNCHANGED <<kindVars, depsVars, writeVars, scriptVars, validateVars, walkVars>>

\* The rest of collect: glob, the ig filter, the map to local files and the
\* push of one entry per dependency.
CollectGlobAndMap ==
    /\ collectPc = "glob"
    /\ LET globbedFiles == glob(diskListing(gitignore, ignoreFile), globIgnoreOption(readme))
           filteredFiles == SelectSeq(globbedFiles, LAMBDA file : ~igIgnores(ig, file))
       IN collected' = LocalFiles(filteredFiles) \o DependencyFiles(optDependencies)
    /\ collectPc' = "done"
    /\ UNCHANGED <<gitignore, ignoreFile, readme, optDependencies, ig>>
    /\ UNCHANGED <<icon, filesAtCall, processed>>
    /\ UNCHANGED <<kindVars, depsVars, writeVars, scriptVars, validateVars, walkVars>>

(***************************************************************************)
(* processFiles                                                            *)
(*                                                                         *)
(* The names processFiles looks for ("LICENSE", "README", ...) are tokens  *)
(* of their own, so that a name which ends with one of them is the token   *)
(* sequence of its two parts.                                              *)
(***************************************************************************)

\* Bound of the file lists that are enumerated.
MaxFiles == 3

\* String.prototype.endsWith
EndsWith(s, suffix) ==
    /\ Len(s) >= Len(suffix)
    /\ SubSeq(s, Len(s) - Len(suffix) + 1, Len(s)) = suffix

\* The position of the last "." of a name, 0 when it has none.
LastDot(base) ==
    LET dots == {i \in DOMAIN base : base[i] = "."}
    IN IF dots = {} THEN 0 ELSE CHOOSE i \in dots : \A j \in dots : j <= i

\* path.extname: from the last "." of the last segment to its end; empty
\* when there is none or when the segment starts with its only ".".
extname(p) ==
    LET segs == Segments(p)
        base == segs[Len(segs)]
    IN IF LastDot(base) <= 1 THEN <<>> ELSE SubSeq(base, LastDot(base), Len(base))

\* Array.prototype.findIndex on the archive path, counted from 1; 0 for -1.
FindIndex(files, path) ==
    LET hits == {i \in DOMAIN files : files[i].path = path}
    IN IF hits = {} THEN 0 ELSE Min(hits)

\* hasExtensionFile: the names are tried in order; for a name, the first
\* entry whose archive path ends with it.
RECURSIVE hasExtensionFile(_, _)
hasExtensionFile(files, fileNames) ==
    IF fileNames = <<>>
    THEN [found |-> FALSE, path |-> Null]
    ELSE LET fileName == Head(fileNames)
             hits == IF fileName = Null
                     THEN {}
                     ELSE {i \in DOMAIN files : EndsWith(files[i].path, fileName.val)}
         IN IF hits # {}
            THEN [found |-> TRUE, path |-> Str(files[Min(hits)].path)]
            ELSE hasExtensionFile(files, Tail(fileNames))

LicenseNames ==
    <<Str(<<"LICENSE">>), Str(<<"LICENSE", ".", "md">>),
      Str(<<"LICENSE", ".", "txt">>), Str(<<"LICENSE", ".", "markdown">>)>>

ChangelogNames ==
    <<Str(<<"CHANGELOG", ".", "md">>), Str(<<"CHANGELOG", ".", "markdown">>),
      Str(<<"CHANGELOG", ".", "txt">>)>>

TranslationNames == <<Str(<<"package", ".", "nls", ".", "json">>)>>

ManifestAsset(type, path) == [type |-> type, path |-> path]

\* An asset for a file that was found, none otherwise.
AssetFor(has, type) == IF has.found THEN <<ManifestAsset(type, has.path.val)>> ELSE <<>>

\* The renamed entry: the entry's other fields are kept.
Renamed(entry, path) == [entry EXCEPT !.path = path]

\* processFiles: the list after the call and how the promise settles.  The
\* five lookups are made on the list as passed, before the rename.
processFiles(files, manifestIcon, readmeName) ==
    LET found == hasExtensionFile(files, LicenseNames)
        renames == found.found /\ extname(found.path.val) = <<>>
        entryIndex == FindIndex(files, found.path.val)
        renamedPath == found.path.val \o <<".", "md">>
        filesAfter ==
            IF renames
            THEN [files EXCEPT ![entryIndex] = Renamed(files[entryIndex], renamedPath)]
            ELSE files
        hasLicenseFile == IF renames THEN [found EXCEPT !.path = Str(renamedPath)] ELSE found
        hasIconFile == hasExtensionFile(files, <<manifestIcon>>)
        hasReadmeFile == hasExtensionFile(files, <<readmeName, Str(ReadmeMd)>>)
        hasChangelogFile == hasExtensionFile(files, ChangelogNames)
        hasTranslationsFiles == hasExtensionFile(files, TranslationNames)
        assets ==
            AssetFor(hasLicenseFile, "Microsoft.VisualStudio.Services.Content.License")
            \o AssetFor(hasIconFile, "Microsoft.VisualStudio.Services.Icons.Default")
            \o AssetFor(hasReadmeFile, "Microsoft.VisualStudio.Services.Content.Details")
            \o AssetFor(hasChangelogFile, "Microsoft.VisualStudio.Services.Content.Changelog")
            \o AssetFor(hasTranslationsFiles, "Microsoft.VisualStudio.Code.Translation.en")
    IN IF renames /\ entryIndex = 0
       THEN [files |-> files,
             outcome |-> Throw(<<"could not find license file: ">> \o found.path.val)]
       ELSE [files |-> filesAfter,
             outcome |-> Return([assets |-> assets, icon |-> hasIconFile.path,
                                 license |-> hasLicenseFile.path])]

\* A VsixInMemoryFile
InMemoryFile(path, contents) == [type |-> "in-memory", path |-> path, contents |-> contents]

\* The entries the enumerated lists are made of.
FileEntries ==
    {LocalFile(<<"LICENSE">>),
     LocalFile(<<"docs", "/", "LICENSE">>),
     LocalFile(<<"LICENSE", ".", "md">>),
     LocalFile(ReadmeMd),
     LocalFile(<<"icon", ".", "png">>),
     InMemoryFile(<<"extension", "/", "CHANGELOG", ".", "md">>, <<"changes">>)}

FileLists == SeqsUpTo(FileEntries, MaxFiles)

\* manifest.icon
Icons == {Null, Str(<<"icon", ".", "png">>)}

\* options.readme of processFiles; the variable is empty when it is not given.
ReadmeOption == IF readme = <<>> THEN Null ELSE Str(readme)

\* A caller about to pass its own list to processFiles.
ProcessInit ==
    /\ gitignore = Null
    /\ ignoreFile = Null
    /\ readme \in {<<>>} \cup ReadmeOptions
    /\ optDependencies = <<>>
    /\ ig = <<>>
    /\ collected \in FileLists
    /\ collectPc = "done"
    /\ icon = Null
    /\ filesAtCall = <<>>
    /\ processed = Pending

\* processFiles on the list the caller holds.
ProcessFiles ==
    /\ collectPc = "done"
    /\ \E manifestIcon \in Icons :
           LET r == processFiles(collected, manifestIcon, ReadmeOption)
           IN /\ icon' = manifestIcon
              /\ filesAtCall' = collected
              /\ collected' = r.files
              /\ processed' = r.outcome
    /\ collectPc' = "processed"
    /\ UNCHANGED <<gitignore, ignoreFile, readme, optDependencies, ig>>
    /\ UNCHANGED <<kindVars, depsVars, writeVars, scriptVars, validateVars, walkVars>>

(***************************************************************************)
(* writeVsix                                                               *)
(*                                                                         *)
(* The operations are numbered, and so are the package paths; two          *)
(* operations may be given the same path.  A                               *)
(* file array is an object on the heap: the options of a call hold a       *)
(* reference to it, and two calls may hold the same reference.  Between    *)
(* two suspension points the code of a call runs without interruption.     *)
(***************************************************************************)

\* Bound of the file arrays that are enumerated.
MaxZipFiles == 2

Ops == {1, 2}

\* A reference to a file array.
Ref(id) == [tag |-> "ref", val |-> id]

\* A number, as opposed to undefined (Null).
Number(n) == [tag |-> "number", val |-> n]

\* No file at a path.
Absent == [tag |-> "absent", val |-> <<>>]

\* The file a package path holds before any call.
OldPackage == [tag |-> "file", val |-> <<"hello world">>]

\* A file that the write stream has opened: created or truncated, with at
\* most a part of the archive in it.
OpenedFile == [tag |-> "partial", val |-> <<>>]

\* A zip archive: the mtime given to every entry (Null: none was given) and
\* the entries in the order they were added.
Archive(mtime, entries) == [tag |-> "archive", val |-> [mtime |-> mtime, entries |-> entries]]

PackagePath(op) == IF op = 1 THEN <<"pkg-1", ".", "vsix">> ELSE <<"pkg-2", ".", "vsix">>

\* The number of the package path a call was given; its own number when it
\* was given none.
PathOf(op) ==
    IF writePc[op] = "idle"
    THEN op
    ELSE IF writeOptions[op].packagePath = PackagePath(1)
    THEN 1
    ELSE IF writeOptions[op].packagePath = PackagePath(2) THEN 2 ELSE op

\* What is on disk at the package path of a call.
FileAt(op) == packageFile[PathOf(op)]

\* A file two write streams have written to at once.
MixedFile == [tag |-> "mixed", val |-> <<>>]

TestTxt == <<"test", ".", "txt">>

NonExistentTxt == <<"non-existent", ".", "txt">>

\* The local files: test.txt exists, non-existent.txt does not.
LocalDisk(localPath) == IF localPath = TestTxt THEN Str(<<"test content">>) ELSE Null

isInMemoryFile(f) == f.type = "in-memory"

\* What yazl reads for an entry: the buffer, or the local file.
Readable(f) == IF isInMemoryFile(f) THEN TRUE ELSE LocalDisk(f.localPath) # Null

EntryContents(f) == IF isInMemoryFile(f) THEN f.contents ELSE LocalDisk(f.localPath).val

ArchiveEntry(f) == [path |-> f.path, contents |-> EntryContents(f)]

ATxt == <<"a", ".", "txt">>

BTxt == <<"b", ".", "txt">>

CTxt == <<"c", ".", "txt">>

\* The entries the enumerated arrays are made of.
ZipFileEntries ==
    {InMemoryFile(ATxt, <<"x">>),
     InMemoryFile(ATxt, <<"y">>),
     InMemoryFile(BTxt, <<"x">>),
     [type |-> "local", localPath |-> TestTxt, path |-> BTxt],
     [type |-> "local", localPath |-> NonExistentTxt, path |-> CTxt]}

ZipFileLists == SeqsUpTo(ZipFileEntries, MaxZipFiles)

\* a.localeCompare(b) on the archive paths in use: negative, zero, positive.
localeCompare(a, b) ==
    LET rank == [path \in {ATxt, BTxt, CTxt} |->
                    IF path = ATxt THEN 1 ELSE IF path = BTxt THEN 2 ELSE 3]
    IN rank[a] - rank[b]

\* One step of a stable sort: f goes after the entries that are not greater.
InsertByPath(sorted, f) ==
    LET before == SelectSeq(sorted, LAMBDA g : localeCompare(g.path, f.path) <= 0)
        after == SelectSeq(sorted, LAMBDA g : localeCompare(g.path, f.path) > 0)
    IN before \o <<f>> \o after

\* A sort that keeps the order of the list.
SortFiles_unsorted(files) == files

\* files.sort((a, b) => a.path.localeCompare(b.path)); the sort is stable.
RECURSIVE SortFiles(_)
SortFiles(files) ==
    IF files = <<>>
    THEN <<>>
    ELSE InsertByPath(SortFiles(SubSeq(files, 1, Len(files) - 1)), files[Len(files)])

\* No ZipFile yet.
NoZip == [mtime |-> Null, entries |-> <<>>, ended |-> FALSE]

WriteIdle ==
    /\ writeOptions = [op \in Ops |-> Null]
    /\ arrays = [id \in Ops |-> <<>>]
    /\ arraysAtCall = arrays
    /\ packageFile = [path \in Ops |-> Absent]
    /\ packageAtCall = packageFile
    /\ zipEntries = [op \in Ops |-> NoZip]
    /\ outputOpened = [op \in Ops |-> FALSE]
    /\ writeOutcome = [op \in Ops |-> Pending]
    /\ writePc = [op \in Ops |-> "idle"]

WriteVsixOptions(files, packagePath, force, epoch) ==
    [files |-> files, packagePath |-> packagePath, force |-> force, epoch |-> epoch]

Epochs == {Null, Number(1000000000), Number(1000000002)}

\* One call, of operation 1: any options, a file at the package path or none.
WriteInit ==
    /\ \E files \in {Null, Ref(1)}, packagePath \in {<<>>, PackagePath(1)},
          force \in BOOLEAN, epoch \in Epochs :
           writeOptions = [op \in Ops |->
                              IF op = 1
                              THEN WriteVsixOptions(files, packagePath, force, epoch)
                              ELSE Null]
    /\ \E list \in ZipFileLists : arrays = [id \in Ops |-> IF id = 1 THEN list ELSE <<>>]
    /\ arraysAtCall = arrays
    /\ \E file \in {Absent, OldPackage} :
           packageFile = [path \in Ops |-> IF path = 1 THEN file ELSE Absent]
    /\ packageAtCall = packageFile
    /\ zipEntries = [op \in Ops |-> NoZip]
    /\ outputOpened = [op \in Ops |-> FALSE]
    /\ writeOutcome = [op \in Ops |-> Pending]
    /\ writePc = [op \in Ops |-> IF op = 1 THEN "call" ELSE "idle"]

\* The orders a list can be given in.
Reorderings(list) ==
    {[i \in DOMAIN list |-> list[pi[i]]] :
        pi \in {f \in [DOMAIN list -> DOMAIN list] : \A i, j \in DOMAIN list : f[i] = f[j] => i = j}}

\* Two calls.  The second is given the array of the first, or an array of
\* its own with the same entries in some order.  Their package paths are
\* distinct, and a package path that holds a file is written with force; or
\* both are given the first package path, which holds no file, without force.
ConcurrentWriteInit ==
    /\ \E list \in ZipFileLists \ {<<>>} :
       \E own \in Reorderings(list) \cup {<<>>} :
           /\ arrays = [id \in Ops |-> IF id = 1 THEN list ELSE own]
           /\ \E epoch1 \in Epochs, epoch2 \in Epochs, force1 \in BOOLEAN, force2 \in BOOLEAN,
                  path2 \in Ops :
                  /\ path2 = 1 => ~force1 /\ ~force2
                  /\ writeOptions =
                         [op \in Ops |->
                             IF op = 1
                             THEN WriteVsixOptions(Ref(1), PackagePath(1), force1, epoch1)
                             ELSE WriteVsixOptions(IF own = <<>> THEN Ref(1) ELSE Ref(2),
                                                   PackagePath(path2), force2, epoch2)]
                  /\ packageFile = [path \in Ops |->
                                       IF (IF path = 1 THEN force1 ELSE force2)
                                       THEN OldPackage
                                       ELSE Absent]
                  /\ packageAtCall = [op \in Ops |-> packageFile[IF op = 1 THEN 1 ELSE path2]]
    /\ arraysAtCall = arrays
    /\ zipEntries = [op \in Ops |-> NoZip]
    /\ outputOpened = [op \in Ops |-> FALSE]
    /\ writeOutcome = [op \in Ops |-> Pending]
    /\ writePc = [op \in Ops |-> "call"]

\* existsSync(packagePath) that finds nothing.
PackageExists_never(op) == FALSE

\* existsSync(packagePath)
PackageExists(op) ==
    writeOptions[op].packagePath # <<>> /\ FileAt(op) # Absent

\* !files || files.length === 0
NoFiles(op) ==
    writeOptions[op].files = Null \/ arrays[writeOptions[op].files.val] = <<>>

\* writeVsix from the ZipFile to the returned promise: the array is sorted in
\* place when an epoch is given, every file is added, the zip is ended and
\* the write stream on the package path is created.
StartZip(op) ==
    LET options == writeOptions[op]
        ref == options.files.val
        files == IF options.epoch # Null THEN SortFiles(arrays[ref]) ELSE arrays[ref]
    IN /\ arrays' = [arrays EXCEPT ![ref] = files]
       /\ zipEntries' = [zipEntries EXCEPT
                            ![op] = [mtime |-> options.epoch, entries |-> files, ended |-> TRUE]]
       /\ writePc' = [writePc EXCEPT ![op] = "streaming"]
       /\ UNCHANGED writeOutcome

Reject(op, message) ==
    /\ writeOutcome' = [writeOutcome EXCEPT ![op] = Throw(message)]
    /\ writePc' = [writePc EXCEPT ![op] = "settled"]

\* The call up to its first suspension point: the argument checks, then the
\* await of unlink, or, with nothing to unlink, the rest of the function.
WriteVsixCall(op) ==
    /\ writePc[op] = "call"
    /\ IF PackageExists(op) /\ ~writeOptions[op].force
       THEN /\ Reject(op, <<"package already exists at ">> \o writeOptions[op].packagePath)
            /\ UNCHANGED <<arrays, zipEntries>>
       ELSE IF NoFiles(op)
       THEN /\ Reject(op, <<"no files specified to package">>)
            /\ UNCHANGED <<arrays, zipEntries>>
       ELSE IF writeOptions[op].packagePath = <<>>
       THEN /\ Reject(op, <<"no package path specified">>)
            /\ UNCHANGED <<arrays, zipEntries>>
       ELSE IF PackageExists(op) /\ writeOptions[op].force
       THEN /\ writePc' = [writePc EXCEPT ![op] = "unlink"]
            /\ UNCHANGED <<arrays, zipEntries, writeOutcome>>
       ELSE StartZip(op)
    /\ UNCHANGED <<writeOptions, arraysAtCall, packageFile, packageAtCall, outputOpened>>
    /\ UNCHANGED <<kindVars, depsVars, collectVars, scriptVars, validateVars, walkVars>>

\* unlink has removed the file; the function resumes.
WriteVsixUnlinked(op) ==
    /\ writePc[op] = "unlink"
    /\ packageFile' = [packageFile EXCEPT ![PathOf(op)] = Absent]
    /\ StartZip(op)
    /\ UNCHANGED <<writeOptions, arraysAtCall, packageAtCall, outputOpened>>
    /\ UNCHANGED <<kindVars, depsVars, collectVars, scriptVars, validateVars, walkVars>>

\* The write stream opens the package path: the file is created.  Nothing
\* closes the stream when the promise is rejected.
OutputOpen(op) ==
    /\ zipEntries[op].ended
    /\ ~outputOpened[op]
    /\ outputOpened' = [outputOpened EXCEPT ![op] = TRUE]
    /\ packageFile' = [packageFile EXCEPT ![PathOf(op)] = OpenedFile]
    /\ UNCHANGED <<writeOptions, arrays, arraysAtCall, packageAtCall, zipEntries,
                   writeOutcome, writePc>>
    /\ UNCHANGED <<kindVars, depsVars, collectVars, scriptVars, validateVars, walkVars>>

\* The zip emits "error": a local file that was added cannot be read.
ZipError(op) ==
    /\ writePc[op] = "streaming"
    /\ \E i \in DOMAIN zipEntries[op].entries : ~Readable(zipEntries[op].entries[i])
    /\ Reject(op, <<"ENOENT: no such file or directory">>)
    /\ UNCHANGED <<writeOptions, arrays, arraysAtCall, packageFile, packageAtCall,
                   zipEntries, outputOpened>>
    /\ UNCHANGED <<kindVars, depsVars, collectVars, scriptVars, validateVars, walkVars>>

\* Another call has a write stream open on the same package path.
SharesOutput(op) ==
    \E other \in Ops \ {op} : PathOf(other) = PathOf(op) /\ outputOpened[other]

\* The write stream emits "finish": the whole archive is in the file, unless
\* another stream wrote to the same file; then what the file holds depends on
\* how the writes of the two fell.
OutputFinish(op) ==
    /\ writePc[op] = "streaming"
    /\ outputOpened[op]
    /\ \A i \in DOMAIN zipEntries[op].entries : Readable(zipEntries[op].entries[i])
    /\ LET archive == Archive(zipEntries[op].mtime,
                              [i \in DOMAIN zipEntries[op].entries |->
                                  ArchiveEntry(zipEntries[op].entries[i])])
       IN \E written \in (IF SharesOutput(op) THEN {archive, MixedFile} ELSE {archive}) :
              packageFile' = [packageFile EXCEPT ![PathOf(op)] = written]
    /\ writeOutcome' = [writeOutcome EXCEPT ![op] = Return(TRUE)]
    /\ writePc' = [writePc EXCEPT ![op] = "settled"]
    /\ UNCHANGED <<writeOptions, arrays, arraysAtCall, packageAtCall, zipEntries, outputOpened>>
    /\ UNCHANGED <<kindVars, depsVars, collectVars, scriptVars, validateVars, walkVars>>

(***************************************************************************)
(* prepublish                                                              *)
(***************************************************************************)

PREPUBLISH == "vscode:prepublish"

PREPUBLISH_RELEASE == "vscode:prepublish:release"

PREPUBLISH_PRERELEASE == "vscode:prepublish:prerelease"

\* The keys a scripts map is made of.
ScriptKeys == {PREPUBLISH, PREPUBLISH_RELEASE, PREPUBLISH_PRERELEASE, "build"}

\* manifest.scripts: absent, or a map with some of those keys.
ScriptMaps == {Null} \cup {[tag |-> "object", val |-> keys] : keys \in SUBSET ScriptKeys}

\* options.cwd
ScriptCwd == <<"/", "proj">>

\* exec(command, { cwd }, callback)
ExecCall(manager, script) == [command |-> <<manager, " run ", script>>, cwd |-> ScriptCwd]

\* One push of prepublish: the script when the condition holds.
PushIf(condition, script) == IF condition THEN <<script>> ELSE <<>>

\* The scripts array without the test of preRelease.
SelectedScripts_bothVariants(map, pre) ==
    PushIf(PREPUBLISH \in map.val, PREPUBLISH)
    \o PushIf(PREPUBLISH_RELEASE \in map.val, PREPUBLISH_RELEASE)
    \o PushIf(PREPUBLISH_PRERELEASE \in map.val, PREPUBLISH_PRERELEASE)

\* The scripts array of prepublish, for a manifest that has a scripts map.
SelectedScripts(map, pre) ==
    PushIf(PREPUBLISH \in map.val, PREPUBLISH)
    \o PushIf(PREPUBLISH_RELEASE \in map.val /\ ~pre, PREPUBLISH_RELEASE)
    \o PushIf(PREPUBLISH_PRERELEASE \in map.val /\ pre, PREPUBLISH_PRERELEASE)

\* No script has been started.
NoneStarted == [script \in ScriptKeys |-> "notStarted"]

\* No callback of exec has been called.
NoResults == [script \in ScriptKeys |-> Null]

\* What a command can write to stderr: nothing, white space only, a message,
\* a message followed by a line end.
Stderrs == {<<>>, <<"\n">>, <<" ", "\n">>, <<"error">>, <<"warning", "\n">>}

WhiteSpace == {" ", "\n"}

\* String.prototype.trim: the white space at both ends is removed.
RECURSIVE trim(_)
trim(text) ==
    IF text = <<>>
    THEN <<>>
    ELSE IF Head(text) \in WhiteSpace
    THEN trim(Tail(text))
    ELSE IF text[Len(text)] \in WhiteSpace
    THEN trim(SubSeq(text, 1, Len(text) - 1))
    ELSE text

\* (err, stdout, stderr) as exec passes them to its callback.
ExecResult(err, stderr) == [tag |-> "result", val |-> [err |-> err, stderr |-> stderr]]

\* runScript that does not look at stderr.
runScript_ignoresStderr(result) == ~result.val.err

\* The value runScript resolves with: false when exec reports an error or
\* when stderr holds more than white space.
runScript(result) ==
    IF result.val.err THEN FALSE ELSE trim(result.val.stderr) = <<>>

ScriptsIdle ==
    /\ scripts = Null
    /\ preRelease = FALSE
    /\ scriptManager = "npm"
    /\ execStarted = <<>>
    /\ scriptState = NoneStarted
    /\ execResult = NoResults
    /\ prepublishOutcome = Pending
    /\ prepublishPc = "idle"

PrepublishInit ==
    /\ scripts \in ScriptMaps
    /\ preRelease \in BOOLEAN
    /\ scriptManager \in {"npm", "yarn", "pnpm"}
    /\ execStarted = <<>>
    /\ scriptState = NoneStarted
    /\ execResult = NoResults
    /\ prepublishOutcome = Pending
    /\ prepublishPc = "call"

\* prepublish up to its await: the scripts are selected and runScript is
\* called for each of them in turn by scripts.map; each call runs up to its
\* own await, that is, it starts its command with exec.
PrepublishCall ==
    /\ prepublishPc = "call"
    /\ IF scripts = Null \/ SelectedScripts(scripts, preRelease) = <<>>
       THEN /\ prepublishOutcome' = Return(<<>>)
            /\ prepublishPc' = "done"
            /\ UNCHANGED <<execStarted, scriptState>>
       ELSE LET selected == SelectedScripts(scripts, preRelease)
            IN /\ execStarted' = [i \in DOMAIN selected |-> ExecCall(scriptManager, selected[i])]
               /\ scriptState' = [script \in ScriptKeys |->
                                     IF script \in Range(selected)
                                     THEN "running"
                                     ELSE "notStarted"]
               /\ prepublishPc' = "waiting"
               /\ UNCHANGED prepublishOutcome
    /\ UNCHANGED <<scripts, preRelease, scriptManager, execResult>>
    /\ UNCHANGED <<kindVars, depsVars, collectVars, writeVars, validateVars, walkVars>>

\* The callback of exec for one script: runScript resolves with what it
\* makes of the error and of stderr.
ScriptExit(script) ==
    /\ prepublishPc = "waiting"
    /\ scriptState[script] = "running"
    /\ \E err \in BOOLEAN, stderr \in Stderrs :
           LET result == ExecResult(err, stderr)
           IN /\ execResult' = [execResult EXCEPT ![script] = result]
              /\ scriptState' = [scriptState EXCEPT
                                    ![script] = IF runScript(result) THEN "ok" ELSE "failed"]
    /\ UNCHANGED <<scripts, preRelease, scriptManager, execStarted, prepublishOutcome,
                   prepublishPc>>
    /\ UNCHANGED <<kindVars, depsVars, collectVars, writeVars, validateVars, walkVars>>

\* Promise.all has resolved: every runScript promise has.
PrepublishSettle ==
    /\ prepublishPc = "waiting"
    /\ \A script \in ScriptKeys : scriptState[script] # "running"
    /\ prepublishOutcome' =
           IF \E script \in ScriptKeys : scriptState[script] = "failed"
           THEN Throw(<<"failed to run one or more scripts">>)
           ELSE Return(<<>>)
    /\ prepublishPc' = "done"
    /\ UNCHANGED <<scripts, preRelease, scriptManager, execStarted, scriptState, execResult>>
    /\ UNCHANGED <<kindVars, depsVars, collectVars, writeVars, validateVars, walkVars>>

(***************************************************************************)
(* validateVSCodeTypesCompatability, validateProjectManifest               *)
(*                                                                         *)
(* A version is a sequence of tokens: an optional range operator, then     *)
(* components separated by ".".  A component is a decimal number, "x", or  *)
(* a word.                                                                 *)
(***************************************************************************)

\* The decimal numbers in use, with their values.
Decimal == [token \in {"0", "1", "2", "30"} |->
               IF token = "0" THEN 0 ELSE IF token = "1" THEN 1 ELSE IF token = "2" THEN 2 ELSE 30]

\* \d+
IsDigits(token) == token \in DOMAIN Decimal

RangeOperators == {"^", ">="}

VersionComponents == {"1", "2", "30", "x"}

\* The versions that are enumerated: one to three components, with or
\* without a range operator; "*"; a word that is no version.
Versions ==
    LET plain == {<<a>> : a \in VersionComponents}
                 \cup {<<a, ".", b>> : a, b \in VersionComponents}
                 \cup {<<a, ".", b, ".", c>> : a, b, c \in VersionComponents}
    IN plain \cup {<<"^">> \o v : v \in plain} \cup {<<"*">>, <<"latest">>}

\* The components of a version without its range operator.
ComponentsOf(version) ==
    Split(IF version # <<>> /\ Head(version) \in RangeOperators THEN Tail(version) ELSE version,
          <<".">>)

\* A component that is a number or x.
IsXOrDigits(component) ==
    Len(component) = 1 /\ (IsDigits(component[1]) \/ component[1] = "x")

\* semver's validRange(version) != null, for the versions above: "*", or
\* one to three components that are numbers or x, after an optional operator.
validRange(version) ==
    \/ version = <<"*">>
    \/ /\ Len(ComponentsOf(version)) \in 1..3
       /\ \A i \in DOMAIN ComponentsOf(version) : IsXOrDigits(ComponentsOf(version)[i])

\* VSCODE_ENGINE_COMPATIBILITY_REGEX.test(version), for the versions above
VSCODE_ENGINE_COMPATIBILITY_REGEX(version) ==
    \/ version = <<"*">>
    \/ /\ Len(ComponentsOf(version)) = 3
       /\ \A i \in DOMAIN ComponentsOf(version) : IsXOrDigits(ComponentsOf(version)[i])

\* .replace(/^\D+/, ""): everything before the first digit is removed.
RECURSIVE StripLeadingNonDigits(_)
StripLeadingNonDigits(version) ==
    IF version = <<>>
    THEN <<>>
    ELSE IF IsDigits(Head(version))
    THEN version
    ELSE StripLeadingNonDigits(Tail(version))

\* .replace(/x/g, "0")
ReplaceX(version) == [i \in DOMAIN version |-> IF version[i] = "x" THEN "0" ELSE version[i]]

\* The number NaN.
NaN == [tag |-> "NaN", val |-> 0]

\* Number.parseInt(component, 10)
parseInt(component) ==
    IF component = <<>>
    THEN NaN
    ELSE IF IsDigits(Head(component))
    THEN Number(Decimal[Head(component)])
    ELSE NaN

\* value || 0 on a number
OrZero(value) == IF value = NaN THEN Number(0) ELSE value

\* a > b on numbers: false when one of them is NaN.
GreaterThan(a, b) == IF a = NaN \/ b = NaN THEN FALSE ELSE a.val > b.val

\* a === b on numbers: false when one of them is NaN.
StrictEquals(a, b) == IF a = NaN \/ b = NaN THEN FALSE ELSE a.val = b.val

\* version.replace(/^\D+/, "").replace(/x/g, "0").split(".")
VersionParts(version) == Split(ReplaceX(StripLeadingNonDigits(version)), <<".">>)

\* The element of a destructured array, undefined when the array is shorter.
ElementAt(parts, i) == IF i \in DOMAIN parts THEN parts[i] ELSE Null

HigherMessage(engine, types) ==
    <<"@types/vscode version ">> \o types
    \o <<" is higher than the specified engine version ">> \o engine

\* validateVSCodeTypesCompatability(engineVersion, typesVersion): how it ends.
validateVSCodeTypesCompatability(engine, types) ==
    IF engine = <<"*">>
    THEN Return(<<>>)
    ELSE IF ~validRange(engine)
    THEN Throw(<<"invalid engine version '">> \o engine \o <<"'">>)
    ELSE IF ~validRange(types)
    THEN Throw(<<"invalid types version '">> \o types \o <<"'">>)
    ELSE LET engineParts == [i \in DOMAIN VersionParts(engine) |->
                                parseInt(VersionParts(engine)[i])]
             typesParts == [i \in DOMAIN VersionParts(types) |->
                               OrZero(parseInt(VersionParts(types)[i]))]
             engineMajor == ElementAt(engineParts, 1)
             engineMinor == ElementAt(engineParts, 2)
             typesMajor == ElementAt(typesParts, 1)
             typesMinor == ElementAt(typesParts, 2)
         IN IF Null \in {typesMajor, typesMinor, engineMajor, engineMinor}
            THEN Throw(<<"invalid engine or types version">>)
            ELSE IF GreaterThan(typesMajor, engineMajor)
            THEN Throw(HigherMessage(engine, types))
            ELSE IF StrictEquals(typesMajor, engineMajor) /\ GreaterThan(typesMinor, engineMinor)
            THEN Throw(HigherMessage(engine, types))
            ELSE Return(<<>>)

ValidateIdle ==
    /\ engineVersion = <<>>
    /\ typesVersion = Null
    /\ validateOutcome = Pending
    /\ validationErrors = <<>>
    /\ validatePc = "idle"

\* A manifest with engines.vscode, with or without @types/vscode among its
\* devDependencies.
ValidateInit ==
    /\ engineVersion \in Versions
    /\ typesVersion \in {Null} \cup {Str(v) : v \in Versions}
    /\ validateOutcome = Pending
    /\ validationErrors = <<>>
    /\ validatePc = "call"

\* validateVSCodeTypesCompatability called with the two versions.
ValidateVSCodeTypesCompatability ==
    /\ validatePc = "call"
    /\ typesVersion # Null
    /\ validateOutcome' = validateVSCodeTypesCompatability(engineVersion, typesVersion.val)
    /\ validatePc' = "done"
    /\ UNCHANGED <<engineVersion, typesVersion, validationErrors>>
    /\ UNCHANGED <<kindVars, depsVars, collectVars, writeVars, scriptVars, walkVars>>

\* validateProjectManifest: the entries for engines.vscode and for
\* @types/vscode; the other fields of the manifest are in order.
ValidateProjectManifest ==
    /\ validatePc = "call"
    /\ LET outcome == IF typesVersion = Null
                      THEN Pending
                      ELSE validateVSCodeTypesCompatability(engineVersion, typesVersion.val)
       IN /\ validateOutcome' = outcome
          /\ validationErrors' =
                 (IF VSCODE_ENGINE_COMPATIBILITY_REGEX(engineVersion)
                  THEN <<>> ELSE <<"INVALID_VALUE">>)
                 \o (IF outcome.kind = "throw"
                     THEN <<"VSCODE_TYPES_INCOMPATIBILITY">> ELSE <<>>)
    /\ validatePc' = "manifest-done"
    /\ UNCHANGED <<engineVersion, typesVersion>>
    /\ UNCHANGED <<kindVars, depsVars, collectVars, writeVars, scriptVars, walkVars>>

(***************************************************************************)
(* The tree processing of getExtensionDependencies, one call at a time     *)
(*                                                                         *)
(* asYarnDependency and flatten are recursive functions.  Here each call   *)
(* is a step; the calls that are still to be made, in the order in which   *)
(* the recursion makes them, are a sequence whose head is the next call.   *)
(***************************************************************************)

\* Bound of the number of nodes of the trees that are enumerated.
MaxWalkNodes == 3

\* The names of the nodes of the trees: a package with an exact version and
\* one with a range, which is pruned.
WalkYarnNames == {<<"a", "@", "1.0.0">>, <<"b", "@", "^", "1.0.0">>}

\* The packages of the nodes of the pnpm trees.
WalkPnpmPackages == {pkg \in PnpmPackages : pkg.from \in {<<"a">>, <<"b">>}}

WalkYarnForests ==
    UNION {{YarnNodes(parent, label, n, 0, 1) :
                parent \in ParentMaps(n), label \in [1..n -> WalkYarnNames]} :
           n \in 0..MaxWalkNodes}

WalkPnpmForests ==
    UNION {{PnpmNodes(parent, label, n, 0, 1) :
                parent \in ParentMaps(n), label \in [1..n -> WalkPnpmPackages]} :
           n \in 0..MaxWalkNodes}

\* One call of asYarnDependency(prefix, tree, prune).
AsYarnCall(prefix, tree) == [prefix |-> prefix, tree |-> tree]

\* The calls for a list of trees under one prefix.
AsYarnCallsFor(prefix, trees) == [i \in DOMAIN trees |-> AsYarnCall(prefix, trees[i])]

\* A flatten that takes every path for a new one.
AlreadyFlattened_never(path, seen) == FALSE

\* internalDeps.has(dep.path)
AlreadyFlattened(path, seen) == path \in seen

\* dep.children of a YarnDependency, dep.dependencies of a PnpmDependency
ChildrenOf(manager, dep) == IF manager = "yarn" THEN dep.children ELSE dep.dependencies

\* The record flatten adds to dependencies.
FlattenedDependency(manager, dep) ==
    IF manager = "yarn"
    THEN Dependency(dep.name, Str(dep.version), dep.path)
    ELSE Dependency(dep.from, Str(dep.version), dep.path)

WalkIdle ==
    /\ walkManager = "yarn"
    /\ walkTrees = <<>>
    /\ asYarnCalls = <<>>
    /\ constructed = <<>>
    /\ flattenCalls = <<>>
    /\ internalDeps = {}
    /\ flattened = <<>>
    /\ walkPc = "idle"

\* The trees are parsed: yarn is about to map asYarnDependency over them,
\* pnpm is about to flatten them.
WalkInit ==
    /\ \/ /\ walkManager = "yarn"
          /\ walkTrees \in WalkYarnForests
          /\ asYarnCalls = AsYarnCallsFor(PathJoin(Cwd, NODE_MODULES), walkTrees)
          /\ flattenCalls = <<>>
          /\ walkPc = "construct"
       \/ /\ walkManager = "pnpm"
          /\ walkTrees \in WalkPnpmForests
          /\ asYarnCalls = <<>>
          /\ flattenCalls = walkTrees
          /\ walkPc = "flatten"
    /\ constructed = <<>>
    /\ internalDeps = {}
    /\ flattened = <<>>

\* One call of asYarnDependency up to its loop: null for a pruned node,
\* else the path is joined and the children are called in turn.
AsYarnDependencyCall ==
    /\ walkPc = "construct"
    /\ asYarnCalls # <<>>
    /\ LET call == Head(asYarnCalls)
           name == YarnNameVersion(call.tree.name).name
           dependencyPath == PathJoin(call.prefix, name)
       IN IF HasRangeOperator(call.tree.name)
          THEN /\ asYarnCalls' = Tail(asYarnCalls)
               /\ UNCHANGED constructed
          ELSE /\ asYarnCalls' =
                      AsYarnCallsFor(PathJoin(dependencyPath, NODE_MODULES), call.tree.children)
                      \o Tail(asYarnCalls)
               /\ constructed' = Append(constructed, dependencyPath)
    /\ UNCHANGED <<walkManager, walkTrees, flattenCalls, internalDeps, flattened, walkPc>>
    /\ UNCHANGED <<kindVars, depsVars, collectVars, writeVars, scriptVars, validateVars>>

\* trees.map(...) has returned: the loop over result starts.
AsYarnDependencyDone ==
    /\ walkPc = "construct"
    /\ asYarnCalls = <<>>
    /\ flattenCalls' = asYarnDependencies(PathJoin(Cwd, NODE_MODULES), walkTrees, TRUE)
    /\ walkPc' = "flatten"
    /\ UNCHANGED <<walkManager, walkTrees, asYarnCalls, constructed, internalDeps, flattened>>
    /\ UNCHANGED <<kindVars, depsVars, collectVars, writeVars, scriptVars, validateVars>>

\* One call of flatten up to its loop: nothing for a path that is in
\* internalDeps, else the record is added and the children are called.
FlattenCall ==
    /\ walkPc = "flatten"
    /\ flattenCalls # <<>>
    /\ LET dep == Head(flattenCalls)
       IN IF AlreadyFlattened(dep.path, internalDeps)
          THEN /\ flattenCalls' = Tail(flattenCalls)
               /\ UNCHANGED <<internalDeps, flattened>>
          ELSE /\ flattenCalls' = ChildrenOf(walkManager, dep) \o Tail(flattenCalls)
               /\ internalDeps' = internalDeps \cup {dep.path}
               /\ flattened' = Append(flattened, FlattenedDependency(walkManager, dep))
    /\ UNCHANGED <<walkManager, walkTrees, asYarnCalls, constructed, walkPc>>
    /\ UNCHANGED <<kindVars, depsVars, collectVars, writeVars, scriptVars, validateVars>>

\* The loop over the top-level dependencies has ended.
FlattenDone ==
    /\ walkPc = "flatten"
    /\ flattenCalls = <<>>
    /\ walkPc' = "done"
    /\ UNCHANGED <<walkManager, walkTrees, asYarnCalls, constructed, flattenCalls,
                   internalDeps, flattened>>
    /\ UNCHANGED <<kindVars, depsVars, collectVars, writeVars, scriptVars, validateVars>>

(***************************************************************************)
(* Specifications                                                          *)
(***************************************************************************)

KindNext == TransformExtensionKind

KindSpecInit ==
    /\ KindInit
    /\ DepsIdle
    /\ CollectIdle
    /\ WriteIdle
    /\ ScriptsIdle
    /\ ValidateIdle
    /\ WalkIdle

KindSpec == KindSpecInit /\ [][KindNext]_vars

DepsNext == GetExtensionDependenciesCall \/ GetExtensionDependenciesResume

DepsSpecInit ==
    /\ KindIdle
    /\ DepsInit
    /\ CollectIdle
    /\ WriteIdle
    /\ ScriptsIdle
    /\ ValidateIdle
    /\ WalkIdle

DepsSpec == DepsSpecInit /\ [][DepsNext]_vars

CollectNext == CollectReadIgnoreFiles \/ CollectGlobAndMap \/ ProcessFiles

CollectSpecInit ==
    /\ KindIdle
    /\ DepsIdle
    /\ CollectInit
    /\ WriteIdle
    /\ ScriptsIdle
    /\ ValidateIdle
    /\ WalkIdle

CollectSpec == CollectSpecInit /\ [][CollectNext]_vars

ProcessNext == ProcessFiles

ProcessSpecInit ==
    /\ KindIdle
    /\ DepsIdle
    /\ ProcessInit
    /\ WriteIdle
    /\ ScriptsIdle
    /\ ValidateIdle
    /\ WalkIdle

ProcessSpec == ProcessSpecInit /\ [][ProcessNext]_vars

WriteNext ==
    \E op \in Ops :
        \/ WriteVsixCall(op)
        \/ WriteVsixUnlinked(op)
        \/ OutputOpen(op)
        \/ ZipError(op)
        \/ OutputFinish(op)

WriteSpecInit ==
    /\ KindIdle
    /\ DepsIdle
    /\ CollectIdle
    /\ WriteInit
    /\ ScriptsIdle
    /\ ValidateIdle
    /\ WalkIdle

WriteSpec == WriteSpecInit /\ [][WriteNext]_vars

ConcurrentWriteSpecInit ==
    /\ KindIdle
    /\ DepsIdle
    /\ CollectIdle
    /\ ConcurrentWriteInit
    /\ ScriptsIdle
    /\ ValidateIdle
    /\ WalkIdle

ConcurrentWriteSpec == ConcurrentWriteSpecInit /\ [][WriteNext]_vars

PrepublishNext ==
    \/ PrepublishCall
    \/ \E script \in ScriptKeys : ScriptExit(script)
    \/ PrepublishSettle

PrepublishSpecInit ==
    /\ KindIdle
    /\ DepsIdle
    /\ CollectIdle
    /\ WriteIdle
    /\ PrepublishInit
    /\ ValidateIdle
    /\ WalkIdle

PrepublishSpec == PrepublishSpecInit /\ [][PrepublishNext]_vars

ValidateNext == ValidateVSCodeTypesCompatability \/ ValidateProjectManifest

ValidateSpecInit ==
    /\ KindIdle
    /\ DepsIdle
    /\ CollectIdle
    /\ WriteIdle
    /\ ScriptsIdle
    /\ ValidateInit
    /\ WalkIdle

ValidateSpec == ValidateSpecInit /\ [][ValidateNext]_vars

WalkNext == AsYarnDependencyCall \/ AsYarnDependencyDone \/ FlattenCall \/ FlattenDone

WalkSpecInit ==
    /\ KindIdle
    /\ DepsIdle
    /\ CollectIdle
    /\ WriteIdle
    /\ ScriptsIdle
    /\ ValidateIdle
    /\ WalkInit

\* The recursion is synchronous code: a call that can be made is made.
WalkSpec == WalkSpecInit /\ [][WalkNext]_vars /\ WF_vars(WalkNext)

(***************************************************************************)
(* Claims about transformExtensionKind                                     *)
(***************************************************************************)

Declares(tag, val) == declared.extensionKind = [tag |-> tag, val |-> val]

NoEntryPoint == declared.main = Null /\ declared.browser = Null

HasPackOrDeps ==
    \/ (declared.extensionPack # Null /\ declared.extensionPack.val # <<>>)
    \/ (declared.extensionDependencies # Null /\ declared.extensionDependencies.val # <<>>)

\* C1: for every manifest, transformExtensionKind returns a non-empty list of
\* extension kinds.
C1_ResultNeverEmpty == kindPc = "done" => kindResult # <<>>

\* C2: with extensionKind declared, the result is the declared kinds verbatim
\* (a bare "ui" expanded to ui, workspace), followed by web iff a browser entry
\* point is declared and web is not already present; nothing else is consulted.
\* A declared "ui" always yields ui and workspace, and web when browser is set.
C2_ExplicitKindsVerbatim ==
    (kindPc = "done" /\ declared.extensionKind # Null) =>
        LET d == declared.extensionKind
            base == IF d.tag = "string" /\ d.val = <<"ui">> THEN <<"ui", "workspace">> ELSE d.val
            web == declared.browser # Null /\ "web" \notin Range(base)
        IN /\ kindResult = (IF web THEN base \o <<"web">> ELSE base)
           /\ Declares("string", <<"ui">>) =>
                /\ {"ui", "workspace"} \subseteq Range(kindResult)
                /\ declared.browser # Null => "web" \in Range(kindResult)

C2_Witness ==
    /\ kindPc = "done"
    /\ Declares("string", <<"ui">>)
    /\ declared.browser # Null
    /\ declared.main # Null
    /\ kindResult = <<"ui", "workspace", "web">>

\* C3: with no extensionKind the first matching rule applies: main and browser
\* give [workspace, web]; only main [workspace]; only browser [web]; neither
\* but a non-empty extensionPack or extensionDependencies [workspace, web].
\* Entry points win over packs, and an empty list does not trigger the pack
\* rule (the universal set stands when nothing is contributed).
C3_EntryPointAndPackRules ==
    (kindPc = "done" /\ declared.extensionKind = Null) =>
        /\ (declared.main # Null /\ declared.browser # Null) => kindResult = <<"workspace", "web">>
        /\ (declared.main # Null /\ declared.browser = Null) => kindResult = <<"workspace">>
        /\ (declared.main = Null /\ declared.browser # Null) => kindResult = <<"web">>
        /\ (NoEntryPoint /\ HasPackOrDeps) => kindResult = <<"workspace", "web">>
        /\ (NoEntryPoint /\ ~HasPackOrDeps /\ declared.contributes = Null) =>
                kindResult = <<"ui", "workspace", "web">>

C3_Witness ==
    /\ kindPc = "done"
    /\ declared.extensionKind = Null
    /\ NoEntryPoint
    /\ declared.extensionPack = [tag |-> "array", val |-> <<>>]
    /\ declared.extensionDependencies = [tag |-> "array", val |-> <<"foo.bar">>]
    /\ kindResult = <<"workspace", "web">>

\* C4: with no extensionKind, no entry point and no non-empty pack/dependency
\* list, the result is exactly the kinds of [ui, workspace, web], in that order,
\* that every recognized key of contributes allows; unknown keys do not narrow,
\* the order of the keys is irrelevant, and without a recognized key the result
\* is [ui, workspace, web].
C4_ContributionNarrowing ==
    (kindPc = "done" /\ declared.extensionKind = Null /\ NoEntryPoint /\ ~HasPackOrDeps) =>
        LET keys == IF declared.contributes = Null THEN {} ELSE Range(declared.contributes.val)
            recognized == keys \cap DOMAIN CONTRIBUTION_POINTS_FOR_EXTENSION_KIND
            allowed(kind) ==
                \A k \in recognized : kind \in Range(CONTRIBUTION_POINTS_FOR_EXTENSION_KIND[k])
        IN /\ kindResult = SelectSeq(<<"ui", "workspace", "web">>, allowed)
           /\ recognized = {} => kindResult = <<"ui", "workspace", "web">>

C4_Witness ==
    /\ kindPc = "done"
    /\ declared.extensionKind = Null
    /\ NoEntryPoint
    /\ ~HasPackOrDeps
    /\ declared.contributes = [tag |-> "object", val |-> <<"jsonValidation", "localizations">>]
    /\ kindResult = <<"workspace">>

(***************************************************************************)
(* Claims about getExtensionDependencies                                   *)
(***************************************************************************)

Returned == depsPc = "done" /\ depsOutcome.kind = "return"

\* No two records of the returned list have the same installed path.
DistinctPaths ==
    \A i, j \in DOMAIN depsOutcome.value :
        depsOutcome.value[i].path = depsOutcome.value[j].path => i = j

\* C5: for yarn and pnpm the returned list never holds two records with the
\* same installed path, whatever the dependency tree, diamonds included.
C5_NoDuplicatePathYarnPnpm ==
    (Returned /\ packageManager \in {"yarn", "pnpm"}) => DistinctPaths

\* A pnpm tree in which two different top-level dependencies share a
\* sub-dependency, flattened to three records.
C5_Witness ==
    /\ Returned
    /\ packageManager = "pnpm"
    /\ stdout.tag = "entries"
    /\ stdout.val # <<>>
    /\ stdout.val[1].tag = "entry"
    /\ LET tops == stdout.val[1].val
       IN /\ Len(tops) = 2
          /\ tops[1].path # tops[2].path
          /\ Len(tops[1].dependencies) = 1
          /\ Len(tops[2].dependencies) = 1
          /\ tops[1].dependencies[1].path = tops[2].dependencies[1].path
          /\ tops[1].dependencies[1].path \notin {tops[1].path, tops[2].path}
    /\ Len(depsOutcome.value) = 3

\* C6: for npm the installed path is the dedup key: two identical lines yield
\* a single record.
C6_NpmDedupByPath == (Returned /\ packageManager = "npm") => DistinctPaths

\* C7: an unsupported package manager fails with "unsupported package
\* manager: <name>", and no external process is ever started for it.
C7_UnsupportedFailsBeforeExec ==
    packageManager \notin {"npm", "yarn", "pnpm", "none"} =>
        /\ execLog = <<>>
        /\ depsPc # "exec"
        /\ depsPc = "done" =>
                /\ depsOutcome.kind = "throw"
                /\ depsOutcome.message = <<"unsupported package manager: ", packageManager>>

C7_Witness ==
    /\ packageManager = "custom"
    /\ depsPc = "done"
    /\ depsOutcome.kind = "throw"
    /\ execLog = <<>>

\* The number of lines of yarn's stdout that start with {"type":"tree".
TreeLineCount == Cardinality({i \in DOMAIN stdout : stdout[i].type = "tree"})

\* C8: for yarn the call fails when no line or more than one line matches the
\* tree pattern, and returns a list only when exactly one line matches.
C8_YarnExactlyOneMatch ==
    (depsPc = "done" /\ packageManager = "yarn" /\ ~execFails) =>
        /\ TreeLineCount # 1 => depsOutcome.kind = "throw"
        /\ depsOutcome.kind = "return" => TreeLineCount = 1

\* C9: for pnpm the call returns the empty list, without an error, when stdout
\* is not valid JSON, is not a non-empty array, or its first element has no
\* dependencies map.
C9_PnpmMalformedIsEmpty ==
    (depsPc = "done" /\ packageManager = "pnpm" /\ ~execFails) =>
        LET malformed ==
                \/ stdout.tag \in {"invalid", "value"}
                \/ stdout.val = <<>>
                \/ stdout.val[1].tag \in {"null", "scalar", "nodeps"}
        IN malformed => depsOutcome = Return(<<>>)

C9_Witness ==
    /\ depsPc = "done"
    /\ packageManager = "pnpm"
    /\ ~execFails
    /\ stdout.tag = "invalid"
    /\ depsOutcome = Return(<<>>)

(***************************************************************************)
(* Claims about collect                                                    *)
(***************************************************************************)

\* The files glob enumerates below options.cwd.
Enumerated == Range(diskListing(gitignore, ignoreFile))

InOutput(file) ==
    \E i \in DOMAIN collected :
        /\ collected[i].path = <<"extension", "/">> \o file
        /\ collected[i].localPath = Cwd \o <<"/">> \o file

\* The built-in exclusion list: the default ignore list and node_modules.
BuiltInExcludes(file) ==
    \/ \E i \in DOMAIN VSCE_DEFAULT_IGNORE : GlobMatches(VSCE_DEFAULT_IGNORE[i], file)
    \/ GlobMatches(Pattern("tree", NODE_MODULES), file)

\* The rules of .gitignore followed by those of the tool ignore file.
UserRulesInForce ==
    (IF gitignore # Null THEN gitignore.val ELSE <<>>)
    \o (IF ignoreFile # Null THEN ignoreFile.val ELSE <<>>)

IgnoreFilesExclude(file) == igIgnores(UserRulesInForce, file)

\* C10: package.json and the configured README are in the output even where
\* the built-in exclusion list would exclude them, unless a rule of .gitignore
\* or of the tool ignore file excludes them; every other enumerated file is in
\* the output iff neither the built-in list nor the ignore files exclude it.
C10_ForcedInclusionsAndLayers ==
    collectPc = "done" =>
        \A file \in Enumerated :
            IF file \in {PackageJson, readme}
            THEN InOutput(file) <=> ~IgnoreFilesExclude(file)
            ELSE InOutput(file) <=> (~BuiltInExcludes(file) /\ ~IgnoreFilesExclude(file))

\* The files glob returns: the enumeration less the built-in exclusions.
Globbed == Range(glob(diskListing(gitignore, ignoreFile), globIgnoreOption(readme)))

Max(S) == CHOOSE x \in S : \A y \in S : x >= y

\* The rules that match a path string, by position.
MatchingRules(rules, segs) == {i \in DOMAIN rules : RuleMatches(rules[i], segs)}

\* No rule matches the path, or the last one that does is a negation.
LastMatchAdmits(rules, segs) ==
    LET hits == MatchingRules(rules, segs)
    IN hits = {} \/ rules[Max(hits)].neg

\* C11 as stated: a file glob returns is excluded when an ignore rule matches
\* its path and reinstated by a later negation for the same path; the last
\* rule that matches the path decides.
C11_LastMatchingRuleDecides ==
    collectPc = "done" =>
        \A file \in Globbed :
            InOutput(file) <=> LastMatchAdmits(UserRulesInForce, Segments(file))

\* C11, amended: the last rule that matches a path decides for that path, and
\* a file is in the output iff its own path and every parent directory of it
\* are admitted; below an excluded directory a negation reinstates nothing.
C11_LastMatchingRuleDecidesPerLevel ==
    collectPc = "done" =>
        \A file \in Globbed :
            InOutput(file) <=>
                \A k \in 1..Len(Segments(file)) :
                    LastMatchAdmits(UserRulesInForce, SubSeq(Segments(file), 1, k))

\* A file excluded by a rule of .gitignore and reinstated by a negation in
\* the tool ignore file.
C11_Witness ==
    /\ collectPc = "done"
    /\ gitignore # Null
    /\ ignoreFile # Null
    /\ \E file \in Globbed :
           /\ \E i \in DOMAIN gitignore.val :
                  ~gitignore.val[i].neg /\ RuleMatches(gitignore.val[i], Segments(file))
           /\ \E j \in DOMAIN ignoreFile.val :
                  ignoreFile.val[j].neg /\ RuleMatches(ignoreFile.val[j], Segments(file))
           /\ InOutput(file)

\* The walked files that survive both layers, in the order of the enumeration.
Survivors ==
    SelectSeq(diskListing(gitignore, ignoreFile),
              LAMBDA file : ~globIgnores(globIgnoreOption(readme), file)
                            /\ ~IgnoreFilesExclude(file))

\* C12: after the surviving walked files the output holds exactly one local
\* entry per dependency record, in order, with archive path
\* extension/node_modules/<name> and source path the record's installed path
\* unchanged; nothing is deduplicated.
C12_OneEntryPerDependency ==
    collectPc = "done" =>
        /\ Len(collected) = Len(Survivors) + Len(optDependencies)
        /\ \A i \in DOMAIN optDependencies :
               collected[Len(Survivors) + i] =
                   [type |-> "local",
                    path |-> <<"extension", "/", "node_modules", "/">> \o optDependencies[i].name,
                    localPath |-> optDependencies[i].path]

\* A relative path whose first segment is the archive root extension/.
UnderExtensionRoot(path) ==
    /\ Len(path) >= 3
    /\ path[1] = "extension"
    /\ path[2] = "/"

LicensePath == <<"extension", "/", "LICENSE">>

LicenseMdPath == LicensePath \o <<".", "md">>

\* The positions of the license file without extension in the list as passed.
LicensePositions == {i \in DOMAIN filesAtCall : filesAtCall[i].path = LicensePath}

\* C14: when the list passed to processFiles holds the license file
\* extension/LICENSE, the returned license path and the License asset path
\* are extension/LICENSE.md, the entry at the same index of the caller's list
\* is renamed with its other fields unchanged, and no entry keeps the old
\* path.
C14_LicenseRenamedInPlace ==
    (collectPc = "processed" /\ LicensePositions # {}) =>
        /\ processed.kind = "return"
        /\ processed.value.license = Str(LicenseMdPath)
        /\ \E k \in DOMAIN processed.value.assets :
               processed.value.assets[k] =
                   ManifestAsset("Microsoft.VisualStudio.Services.Content.License", LicenseMdPath)
        /\ LET i == Min(LicensePositions)
           IN collected = [filesAtCall EXCEPT ![i] = [@ EXCEPT !.path = LicenseMdPath]]
        /\ \A j \in DOMAIN collected : collected[j].path # LicensePath

(***************************************************************************)
(* Claims about writeVsix                                                  *)
(***************************************************************************)

Settled(op) == writePc[op] = "settled"

Resolved(op) == Settled(op) /\ writeOutcome[op] = Return(TRUE)

Rejected(op) == Settled(op) /\ writeOutcome[op].kind = "throw"

\* C15: when writeVsix fails after its argument checks, no file exists at
\* packagePath afterwards.
C15_NoFileAfterFailure ==
    \A op \in Ops :
        (Rejected(op) /\ zipEntries[op].ended) => FileAt(op) = Absent

\* The file array of a call as it was when the call was made.
FilesAtCall(op) ==
    IF writeOptions[op].files = Null THEN <<>> ELSE arraysAtCall[writeOptions[op].files.val]

\* The call passes the three argument checks.
PassesChecks(op) ==
    /\ FilesAtCall(op) # <<>>
    /\ writeOptions[op].packagePath # <<>>
    /\ packageAtCall[op] # Absent => writeOptions[op].force

\* C16: a file already present at packagePath is deleted or overwritten only
\* when force is set and the call has passed its argument checks; without
\* force the call rejects with "package already exists at <path>", with force
\* and no files it rejects with "no files specified to package", and in both
\* cases the file is left as it was.
C16_ExistingPackageKept ==
    \A op \in Ops :
        (writePc[op] # "idle" /\ writeOptions[op].packagePath # <<>>
            /\ packageAtCall[op] # Absent) =>
            /\ FileAt(op) # packageAtCall[op] =>
                   (writeOptions[op].force /\ PassesChecks(op))
            /\ (Settled(op) /\ ~writeOptions[op].force) =>
                   /\ writeOutcome[op] =
                          Throw(<<"package already exists at ">> \o writeOptions[op].packagePath)
                   /\ FileAt(op) = packageAtCall[op]
            /\ (Settled(op) /\ writeOptions[op].force /\ FilesAtCall(op) = <<>>) =>
                   /\ writeOutcome[op] = Throw(<<"no files specified to package">>)
                   /\ FileAt(op) = packageAtCall[op]

\* A forced call without files has been rejected and the file is in place;
\* so has a call without force.
C16_Witness ==
    /\ Settled(1)
    /\ packageAtCall[1] = OldPackage
    /\ FileAt(1) = OldPackage
    /\ writeOptions[1].packagePath # <<>>
    /\ writeOptions[1].force
    /\ FilesAtCall(1) = <<>>

\* The (archive path, contents) entries a call was given, as a set.
EntrySet(op) == {ArchiveEntry(FilesAtCall(op)[i]) : i \in DOMAIN FilesAtCall(op)}

DistinctArchivePaths(op) ==
    \A i, j \in DOMAIN FilesAtCall(op) :
        FilesAtCall(op)[i].path = FilesAtCall(op)[j].path => i = j

EntriesAlone(op) ==
    IF writeOptions[op].epoch # Null THEN SortFiles(FilesAtCall(op)) ELSE FilesAtCall(op)

\* The archive a call writes when no other call is made.
ArchiveAlone(op) ==
    Archive(writeOptions[op].epoch,
            [i \in DOMAIN EntriesAlone(op) |-> ArchiveEntry(EntriesAlone(op)[i])])

\* C18: under every interleaving of two calls on distinct package paths, a
\* call that resolves when run alone resolves true and leaves at its package
\* path the archive it writes when run alone.
C18_ConcurrentCallsIndependent ==
    \A op \in Ops :
        (/\ Settled(op)
         /\ PathOf(1) # PathOf(2)
         /\ \A i \in DOMAIN FilesAtCall(op) : Readable(FilesAtCall(op)[i])) =>
            /\ writeOutcome[op] = Return(TRUE)
            /\ FileAt(op) = ArchiveAlone(op)

(***************************************************************************)
(* Claims about prepublish                                                 *)
(***************************************************************************)

HasScript(script) == scripts # Null /\ script \in scripts.val

\* The commands the claim selects, in the order of the doc comment.
ExpectedCommands ==
    (IF HasScript(PREPUBLISH)
     THEN <<ExecCall(scriptManager, PREPUBLISH)>> ELSE <<>>)
    \o (IF HasScript(PREPUBLISH_RELEASE) /\ ~preRelease
        THEN <<ExecCall(scriptManager, PREPUBLISH_RELEASE)>> ELSE <<>>)
    \o (IF HasScript(PREPUBLISH_PRERELEASE) /\ preRelease
        THEN <<ExecCall(scriptManager, PREPUBLISH_PRERELEASE)>> ELSE <<>>)

Started(script) == \E i \in DOMAIN execStarted : execStarted[i] = ExecCall(scriptManager, script)

\* C19: prepublish executes exactly the selected scripts, each once, as
\* <packageManager> run <script> in cwd; the release and the prerelease
\* script are never both run, and without a scripts map or without any of the
\* three keys no command is executed.
C19_ExactlyTheSelectedScripts ==
    /\ prepublishPc \in {"waiting", "done"} => execStarted = ExpectedCommands
    /\ prepublishPc \in {"idle", "call"} => execStarted = <<>>
    /\ ~(Started(PREPUBLISH_RELEASE) /\ Started(PREPUBLISH_PRERELEASE))
    /\ (scripts = Null \/ scripts.val \cap {PREPUBLISH, PREPUBLISH_RELEASE, PREPUBLISH_PRERELEASE} = {})
           => execStarted = <<>>

\* A manifest with all three scripts, packaged as a pre-release: two commands
\* were executed and the promise has resolved.
C19_Witness ==
    /\ prepublishPc = "done"
    /\ prepublishOutcome.kind = "return"
    /\ HasScript(PREPUBLISH_RELEASE)
    /\ HasScript(PREPUBLISH_PRERELEASE)
    /\ preRelease
    /\ Len(execStarted) = 2

\* C20: vscode:prepublish has finished before the release or prerelease
\* script is started; two scripts are never running at the same time.
C20_ScriptsRunOneAtATime ==
    Cardinality({script \in ScriptKeys : scriptState[script] = "running"}) <= 1

\* The scripts whose exec callback was called with an error or with a stderr
\* that is not the empty string.
WroteToStderrOrErred ==
    {script \in ScriptKeys :
        IF execResult[script] = Null
        THEN FALSE
        ELSE execResult[script].val.err \/ execResult[script].val.stderr # <<>>}

\* The scripts whose exec callback was called with an error or with a stderr
\* that holds more than white space.
ErredOrReported ==
    {script \in ScriptKeys :
        IF execResult[script] = Null
        THEN FALSE
        ELSE execResult[script].val.err \/ trim(execResult[script].val.stderr) # <<>>}

PrepublishRejected == prepublishOutcome = Throw(<<"failed to run one or more scripts">>)

\* C21 as stated: prepublish rejects with "failed to run one or more scripts"
\* if and only if a selected script exits with an error or writes a non-empty
\* output to stderr; otherwise it resolves.
C21_RejectsIffAScriptFails ==
    prepublishPc = "done" =>
        /\ PrepublishRejected <=> WroteToStderrOrErred # {}
        /\ WroteToStderrOrErred = {} => prepublishOutcome = Return(<<>>)

\* C21, amended: prepublish rejects with "failed to run one or more scripts"
\* if and only if a selected script exits with an error or writes more than
\* white space to stderr; otherwise it resolves.
C21_RejectsIffAScriptFailsAfterTrim ==
    prepublishPc = "done" =>
        /\ PrepublishRejected <=> ErredOrReported # {}
        /\ ErredOrReported = {} => prepublishOutcome = Return(<<>>)

\* Two scripts were run; one exited without error but wrote a message to
\* stderr, and prepublish has rejected.
C21_Witness ==
    /\ prepublishPc = "done"
    /\ PrepublishRejected
    /\ Len(execStarted) = 2
    /\ \E script \in ScriptKeys :
           /\ execResult[script] # Null
           /\ execResult[script] = ExecResult(FALSE, <<"warning", "\n">>)
    /\ \E script \in ScriptKeys : scriptState[script] = "ok"

(***************************************************************************)
(* Claims about the validation                                             *)
(***************************************************************************)

\* A component as the claim reads it: a number, x as 0.
ComponentValue(component) == Decimal[ReplaceX(component)[1]]

\* A version with a major and a minor component.
HasMajorMinor(version) == validRange(version) /\ version # <<"*">> /\ Len(ComponentsOf(version)) >= 2

Major(version) == ComponentValue(ComponentsOf(version)[1])

Minor(version) == ComponentValue(ComponentsOf(version)[2])

\* (types major, types minor) is greater than (engine major, engine minor).
TypesPairGreater ==
    \/ Major(typesVersion.val) > Major(engineVersion)
    \/ Major(typesVersion.val) = Major(engineVersion) /\ Minor(typesVersion.val) > Minor(engineVersion)

ThrewHigher ==
    /\ typesVersion # Null
    /\ validateOutcome = Throw(HigherMessage(engineVersion, typesVersion.val))

C23_ManifestUnchanged ==
    kindPc = "done" => manifest = declared

(***************************************************************************)
(* Claims about the tree processing                                        *)
(***************************************************************************)

\* No installed path was added twice.
EachPathOnce == \A i, j \in DOMAIN flattened : flattened[i].path = flattened[j].path => i = j

\* A node of the pnpm tree below a node with the same installed path.
RECURSIVE HasPathBelowItself(_, _)
HasPathBelowItself(deps, above) ==
    \E i \in DOMAIN deps :
        \/ deps[i].path \in above
        \/ HasPathBelowItself(deps[i].dependencies, above \cup {deps[i].path})

YarnTreesOf(out) ==
    IF YarnMatch(out) = <<>>
    THEN <<>>
    ELSE IF YarnMatch(out)[1].json.tag = "array" THEN YarnMatch(out)[1].json.val ELSE <<>>

\* The names of all nodes of a list of trees.
RECURSIVE YarnNodeNames(_)
YarnNodeNames(trees) ==
    UNION {{trees[i].name} \cup YarnNodeNames(trees[i].children) : i \in DOMAIN trees}

LastAt(treeName) == Max({i \in DOMAIN treeName : treeName[i] = "@"})

BeforeLastAt(treeName) == SubSeq(treeName, 1, LastAt(treeName) - 1)

AfterLastAt(treeName) == SubSeq(treeName, LastAt(treeName) + 1, Len(treeName))

YarnReturned == depsPc = "done" /\ packageManager = "yarn" /\ depsOutcome.kind = "return"

\* C25: every record produced for a yarn tree has the name before the last
\* "@" of a node's name and the version after it, for unscoped names, for
\* scoped names and for names that contain further "@" characters.
C25_YarnSplitsAtLastAt ==
    YarnReturned =>
        \A i \in DOMAIN depsOutcome.value :
            \E treeName \in YarnNodeNames(YarnTreesOf(stdout)) :
                /\ depsOutcome.value[i].name = BeforeLastAt(treeName)
                /\ depsOutcome.value[i].version = Str(AfterLastAt(treeName))

NpmReturned == depsPc = "done" /\ packageManager = "npm" /\ depsOutcome.kind = "return"

\* The first path segment after the last node_modules separator of a line,
\* the first two for a scoped package.
NameAfterLastNodeModules(line) ==
    LET parts == Split(line, NodeModulesSep)
        last == parts[Len(parts)]
        segments == Split(last, <<"/">>)
    IN IF Head(last) = "@" /\ Len(segments) >= 2
       THEN segments[1] \o <<"/">> \o segments[2]
       ELSE segments[1]

\* C26: for npm, the lines other than cwd yield, in order, one record each,
\* whose installed path is the line and whose name is the first path segment
\* after the last node_modules separator of the line, @scope/name for a
\* scoped package; the line equal to cwd yields no record.
C26_NpmNameAfterLastNodeModules ==
    NpmReturned =>
        /\ [i \in DOMAIN depsOutcome.value |-> depsOutcome.value[i].path]
               = SelectSeq(stdout, LAMBDA line : isAbsolute(line) /\ line # Cwd)
        /\ \A i \in DOMAIN depsOutcome.value :
               depsOutcome.value[i].name = NameAfterLastNodeModules(depsOutcome.value[i].path)

\* The version range of a node, after the last "@" of its name, uses ^ or ~.
UsesCaretOrTilde(treeName) ==
    AfterLastAt(treeName) # <<>> /\ Head(AfterLastAt(treeName)) \in {"^", "~"}

\* The installed paths of the nodes that are neither discarded nor below a
\* discarded node, parents before children, in the order of the trees.
RECURSIVE KeptPaths(_, _)
KeptPaths(prefix, trees) ==
    IF trees = <<>>
    THEN <<>>
    ELSE LET tree == Head(trees)
             dependencyPath == PathJoin(prefix, YarnNameVersion(tree.name).name)
         IN (IF UsesCaretOrTilde(tree.name)
             THEN <<>>
             ELSE <<dependencyPath>>
                  \o KeptPaths(PathJoin(dependencyPath, NODE_MODULES), tree.children))
            \o KeptPaths(prefix, Tail(trees))

YarnKeptPaths == KeptPaths(PathJoin(Cwd, NODE_MODULES), YarnTreesOf(stdout))

YarnRecordPaths == [i \in DOMAIN depsOutcome.value |-> depsOutcome.value[i].path]

\* No record for a discarded node or for a node below one, and no record
\* with a version that begins with ^ or ~.
NoRecordOfDiscarded ==
    /\ Range(YarnRecordPaths) \subseteq Range(YarnKeptPaths)
    /\ \A i \in DOMAIN depsOutcome.value :
           \/ depsOutcome.value[i].version.val = <<>>
           \/ Head(depsOutcome.value[i].version.val) \notin {"^", "~"}

\* C27 as stated: a yarn tree node whose version range uses ^ or ~ is
\* discarded with its whole subtree, no record has a version beginning with
\* ^ or ~, and every node not below a discarded node yields exactly one
\* record.
C27_PrunedSubtreesOnly ==
    YarnReturned =>
        /\ NoRecordOfDiscarded
        /\ YarnRecordPaths = YarnKeptPaths

\* C27, amended: a yarn tree node whose version range uses ^ or ~ is
\* discarded with its whole subtree, no record has a version beginning with
\* ^ or ~, no two records have the same installed path, and when the nodes
\* not below a discarded node have distinct installed paths each of them
\* yields exactly one record.
C27_PrunedSubtreesOnlyDistinctPaths ==
    YarnReturned =>
        /\ NoRecordOfDiscarded
        /\ IsInjective(YarnRecordPaths)
        /\ IsInjective(YarnKeptPaths) => YarnRecordPaths = YarnKeptPaths

\* A tree whose first node is discarded and has a child; another node has
\* yielded a record.
C27_Witness ==
    /\ YarnReturned
    /\ YarnTreesOf(stdout) # <<>>
    /\ UsesCaretOrTilde(YarnTreesOf(stdout)[1].name)
    /\ YarnTreesOf(stdout)[1].children # <<>>
    /\ Len(depsOutcome.value) = 1

(***************************************************************************)
(* More claims about processFiles                                          *)
(***************************************************************************)

ArchivePaths(files) == [i \in DOMAIN files |-> files[i].path]

\* C28: when the archive paths of the list passed to processFiles are
\* pairwise distinct, they are pairwise distinct after the call: the license
\* rename never produces a path that another entry already has.
C28_ArchivePathsStayDistinct ==
    (collectPc = "processed" /\ IsInjective(ArchivePaths(filesAtCall))) =>
        IsInjective(ArchivePaths(collected))

(***************************************************************************)
(* More claims about writeVsix                                             *)
(***************************************************************************)

\* C29: writeVsix does not modify its input: after the call, with or
\* without epoch, the caller's files array holds the same entries in the same
\* order as before the call.
C29_FilesArrayUnchanged ==
    \A op \in Ops :
        (Settled(op) /\ writeOptions[op].files # Null) =>
            arrays[writeOptions[op].files.val] = FilesAtCall(op)

AlreadyExists(op) ==
    writeOutcome[op] = Throw(<<"package already exists at ">> \o writeOptions[op].packagePath)

\* Two calls without force were given the same package path, which held no
\* file, and files that can all be read.
SamePathUnforced ==
    /\ PathOf(1) = PathOf(2)
    /\ \A op \in Ops :
           /\ ~writeOptions[op].force
           /\ packageAtCall[op] = Absent
           /\ \A i \in DOMAIN FilesAtCall(op) : Readable(FilesAtCall(op)[i])

\* C30: when two calls without force run concurrently on the same package
\* path, which holds no file at first, at most one of them resolves true and
\* the other rejects with "package already exists"; a call never opens the
\* package path for writing after the other call has.
C30_OneWriterPerPath ==
    SamePathUnforced =>
        /\ ~(outputOpened[1] /\ outputOpened[2])
        /\ (Settled(1) /\ Settled(2)) =>
               \E op \in Ops : \E other \in Ops \ {op} : AlreadyExists(other)

====
